---- MODULE Spec2Model ----
(***************************************************************************)
(* Model of djangochannelsrestframework's ModelObserver: the group-delta   *)
(* computation on model lifecycle signals and the commit-deferred          *)
(* delivery of the resulting messages                                      *)
(* (src/djangochannelsrestframework/observer/model_observer.py).           *)
(*                                                                         *)
(* One database connection (one writer thread) is modelled. The ORM and    *)
(* the transaction facility are external collaborators: they are modelled  *)
(* at their interface (which signal is fired with which instance, and when *)
(* a callback registered with on_commit runs).                             *)
(*                                                                         *)
(* SpecRegistry models one websocket consumer of the observer              *)
(* (observer/base_observer.py, observer/generics.py, consumers.py): its    *)
(* subscribe and unsubscribe requests, and the handler the channel layer   *)
(* invokes when a row is changed in autocommit mode.                       *)
(*                                                                         *)
(* SpecObservers models the declaration of observers (decorators, the      *)
(* metaclass, the model_cls setter) and the group names they give;         *)
(* SpecConnections two consumer instances that subscribe through two       *)
(* observers; SpecSavepoints the writer inside nested atomic blocks;       *)
(* SpecTransport a channel layer whose group_send fails during a commit.   *)
(*                                                                         *)
(* SpecDelivery models the channel layer between committed events and the  *)
(* connections subscribed to their groups; SpecActions the dispatch of     *)
(* client messages to actions (consumers.py, decorators.py); SpecWriters   *)
(* two writer threads of one row; SpecRelations a consumer class over a    *)
(* model with a many-to-many field; SpecStates the per-instance state of   *)
(* two observers; SpecStream and SpecStreamFair the streamed paginated     *)
(* list (mixins.py, pagination.py).                                        *)
(***************************************************************************)
EXTENDS Integers, Sequences, FiniteSets, TLC

\* ------------------------------------------------------------------ bounds

\* In-memory model instances (Python objects) that may be constructed.
Instances == {"u1"}
\* Raw group tokens a user supplied groups function may yield.
Tokens == {"A", "B", "C"}
\* Primary keys of rows; None is a missing primary key (instance.pk is None).
PKs == {1}
None == 0
\* Number of database events (signals reaching database_event) in one
\* transaction.
MaxTxEvents == 2

\* ------------------------------------------------------------- vocabulary

CREATE == "create"
UPDATE == "update"
DELETE == "delete"

\* Values of the instance fields the groups function reads.
FieldValues == SUBSET Tokens

VARIABLES
    groups_for_signal_set, \* BaseObserver._group_names_for_signal is not None
    instances,             \* the constructed in-memory instances
    pk,                    \* instance -> instance.pk
    fields,                \* instance -> the fields the groups function reads
    current_groups,        \* instance -> ModelObserverInstanceState.current_groups
    pending_messages,      \* instance -> ModelObserverInstanceState.pending_messages
    in_atomic_block,       \* connection.in_atomic_block
    run_on_commit,         \* connection.run_on_commit: callbacks awaiting commit
    current_run_on_commit, \* callbacks of a committed transaction still to run
    rows,                  \* primary keys of the rows the connection sees
    rows_at_begin,         \* rows when the open transaction began
    channel,               \* the group_sends issued since the transaction (or
                           \* the autocommit event) began, in order
    event,                 \* history: instance -> its last database event
    committed_groups,      \* history: instance -> groups of its committed row
    begin_groups,          \* history: current_groups when the transaction began
                           \* (when constructed, for an instance constructed in it)
    hooks_done,            \* history: the callbacks the commit has run so far
    m2m_signal,            \* history: the m2m_changed signal the last step sent
    mixin,                 \* the consumer is an ObserverModelInstanceMixin
    consumer_groups,       \* consumer.groups: the groups the channel has joined
    observer_group_to_request_id,
                           \* consumer._observer_group_to_request_id[observer id]
    subscribed_requests,   \* ObserverConsumerMixin.subscribed_requests, as the
                           \* list of its items in insertion order
    call,                  \* history: the last operation on the consumer
    observers,             \* observer -> the ModelObserver a class declares
    connection,            \* the groups a connection joined, and through
                           \* which observers
    probe,                 \* history: the last declaration-level operation
    connections,           \* connection -> the state of its consumer instance
    subscriptions,         \* history: the <<connection, observer, group,
                           \* request id>> subscribed and not unsubscribed
    invocations,           \* history: the handler calls of the last change
    savepoint_ids,         \* len(connection.savepoint_ids): the atomic blocks
                           \* open inside the outermost one
    flush,                 \* history: the last send_prepared_messages that a
                           \* failing group_send has ended
    layer_groups,          \* channel layer: the <<group, channel>> memberships
    inbox,                 \* channel layer: channel -> the messages it holds
    closed,                \* the connections that have disconnected
    sent_log,              \* history: the group_sends of committed events
    deliveries,            \* history: connection -> the events its handler got
    mailbox,               \* the client's messages the consumer has not taken
    received,              \* history: the messages receive_json was called with
    tasks,                 \* the asyncio tasks the detached actions created
    replies,               \* the replies sent to the client, in order
    serving,               \* no exception has left the consumer's dispatch
    writers,               \* writer -> its in-memory instance of the row, its
                           \* observer state and its transaction
    row_history,           \* history: the committed fields of the row, in order
    broadcast,             \* history: the group_sends of the writers' commits
    relations,             \* the consumer class that observes a model with a
                           \* many-to-many field, and the signals it listens to
    observer_states,       \* instance -> its pk, its fields and its
                           \* _state._thread_local_observers
    state_tx,              \* the transaction of the thread that owns them
    state_call,            \* history: the last operation on an instance
    stream                 \* the streamed list request a consumer is serving

declaration_vars == <<observers, connection, probe>>

delivery_vars == <<layer_groups, inbox, closed, sent_log, deliveries>>

action_vars == <<mailbox, received, tasks, replies, serving>>

writer_vars == <<writers, row_history, broadcast>>

state_vars == <<observer_states, state_tx, state_call>>

late_vars == <<relations, state_vars, stream>>

extension_vars == <<delivery_vars, action_vars, writer_vars, late_vars>>

consumer_vars ==
    <<consumer_groups, observer_group_to_request_id, subscribed_requests, call>>

connection_vars == <<connections, subscriptions, invocations>>

registry_vars ==
    <<mixin, consumer_vars, declaration_vars, connection_vars, savepoint_ids,
      flush, extension_vars>>

model_vars ==
    <<groups_for_signal_set, instances, pk, fields, current_groups,
      pending_messages, in_atomic_block, run_on_commit, current_run_on_commit,
      rows_at_begin, channel, event, committed_groups, begin_groups,
      hooks_done, m2m_signal, mixin>>

quiet_vars == <<model_vars, rows, consumer_vars, savepoint_ids, flush>>

idle_vars == <<quiet_vars, extension_vars>>

vars == <<groups_for_signal_set, instances, pk, fields, current_groups,
          pending_messages, in_atomic_block, run_on_commit,
          current_run_on_commit, rows, rows_at_begin, channel, event,
          committed_groups, begin_groups, hooks_done, m2m_signal,
          registry_vars>>

orm_vars == <<instances, pk, fields, rows>>

\* ------------------------------------------------------------ group names

StableObserverId == "*-ModelObserver-tests.handler"
HandlerType == "handler"

\* clean_group_name hashes the name; the hash is modelled as an injective tag.
CleanGroupName(name) == <<"DCRF", name>>

\* ModelObserver.group_names: one group for all instances of the model.
GroupNames == {<<StableObserverId, HandlerType, "model">>}

\* The user's groups function: the tokens it yields for the given fields.
UserGroupNamesForSignal(f) == f

GroupNamesForSignal(f) ==
    IF groups_for_signal_set
    THEN {CleanGroupName(<<StableObserverId, group>>) :
              group \in UserGroupNamesForSignal(f)}
    ELSE {CleanGroupName(group) : group \in GroupNames}

\* -------------------------------------------------------------- messages

Serialize(p, action) == [type |-> HandlerType, body |-> p, action |-> action]

Range(seq) == {seq[k] : k \in DOMAIN seq}

\* The orders in which a Python set may be iterated.
Orderings(S) ==
    {s \in [1..Cardinality(S) -> S] : \A x \in S : \E k \in DOMAIN s : s[k] = x}

\* The number a database event gets in its transaction (1 outside of one).
EventSeq(w) == IF in_atomic_block THEN Len(w.run_on_commit) \div 2 + 1 ELSE 1

\* Mutant: the body is serialized again for each group.
FlavorMessagesSerializeEach(i, p, group_names, action, seq) ==
    IF group_names = {}
    THEN {<<>>}
    ELSE {[k \in DOMAIN s |->
              LET message_body == Serialize(p, action)
              IN [type |-> message_body.type, body |-> message_body.body,
                  action |-> message_body.action, group |-> s[k],
                  instance |-> i, seq |-> seq, serialize_call |-> k,
                  status |-> IF in_atomic_block THEN "open" ELSE "committed"]] :
          s \in Orderings(group_names)}

\* The messages of one flavor: the body is serialized once and copied for each
\* group. The fields instance, seq, serialize_call and status are history: the
\* instance whose event generated the message, the number of that event in its
\* transaction, which call of the serializer for this flavor made the body,
\* and the fate of that transaction.
FlavorMessages(i, p, group_names, action, seq) ==
    IF group_names = {}
    THEN {<<>>}
    ELSE LET message_body == Serialize(p, action)
         IN {[k \in DOMAIN s |->
                 [type |-> message_body.type, body |-> message_body.body,
                  action |-> message_body.action, group |-> s[k],
                  instance |-> i, seq |-> seq, serialize_call |-> 1,
                  status |-> IF in_atomic_block THEN "open" ELSE "committed"]] :
             s \in Orderings(group_names)}

\* Mutant: every old group gets an update-flavored message.
GenerateMessagesUpdateOld(i, p, old_group_names, new_group_names, seq) ==
    LET delete_group_names == old_group_names \ new_group_names
        update_group_names == old_group_names
        create_group_names == new_group_names \ old_group_names
    IN {d \o u \o c :
            d \in FlavorMessages(i, p, delete_group_names, DELETE, seq),
            u \in FlavorMessages(i, p, update_group_names, UPDATE, seq),
            c \in FlavorMessages(i, p, create_group_names, CREATE, seq)}

\* Mutant: the create-flavored messages come first, the delete-flavored last.
GenerateMessagesCreateFirst(i, p, old_group_names, new_group_names, seq) ==
    LET delete_group_names == old_group_names \ new_group_names
        update_group_names == old_group_names \cap new_group_names
        create_group_names == new_group_names \ old_group_names
    IN {c \o u \o d :
            d \in FlavorMessages(i, p, delete_group_names, DELETE, seq),
            u \in FlavorMessages(i, p, update_group_names, UPDATE, seq),
            c \in FlavorMessages(i, p, create_group_names, CREATE, seq)}

\* Mutant: only the new groups are told, with an update-flavored message.
GenerateMessagesUpdateOnly(i, p, old_group_names, new_group_names, seq) ==
    FlavorMessages(i, p, new_group_names, UPDATE, seq)

GenerateMessages(i, p, old_group_names, new_group_names, seq) ==
    LET delete_group_names == old_group_names \ new_group_names
        update_group_names == old_group_names \cap new_group_names
        create_group_names == new_group_names \ old_group_names
    IN {d \o u \o c :
            d \in FlavorMessages(i, p, delete_group_names, DELETE, seq),
            u \in FlavorMessages(i, p, update_group_names, UPDATE, seq),
            c \in FlavorMessages(i, p, create_group_names, CREATE, seq)}

\* ------------------------------------------------- commit callbacks (hooks)

\* What the receivers and the callbacks read and write. The fields event,
\* committed_groups and hooks_done are history.
World ==
    [current_groups |-> current_groups,
     pending_messages |-> pending_messages,
     channel |-> channel,
     run_on_commit |-> run_on_commit,
     event |-> event,
     committed_groups |-> committed_groups,
     hooks_done |-> hooks_done]

SetWorld(w) ==
    /\ current_groups' = w.current_groups
    /\ pending_messages' = w.pending_messages
    /\ channel' = w.channel
    /\ run_on_commit' = w.run_on_commit
    /\ event' = w.event
    /\ committed_groups' = w.committed_groups
    /\ hooks_done' = w.hooks_done

UpdateHook(i, new_group_names) ==
    [fn |-> "_update_current_groups", instance |-> i, groups |-> new_group_names]
SendHook(i) ==
    [fn |-> "send_prepared_messages", instance |-> i, groups |-> {}]

\* Mutant: the new groups are added to current_groups.
UpdateCurrentGroupsMerge(w, i, new_group_names) ==
    [w EXCEPT !.current_groups[i] = @ \cup new_group_names]

UpdateCurrentGroups(w, i, new_group_names) ==
    [w EXCEPT !.current_groups[i] = new_group_names]

\* Mutant: the queue is not cleared when it is sent.
SendPreparedMessagesKeep(w, i) ==
    [w EXCEPT !.channel = @ \o w.pending_messages[i]]

SendPreparedMessages(w, i) ==
    LET messages == w.pending_messages[i]
    IN [w EXCEPT !.pending_messages[i] = <<>>,
                 !.channel = @ \o messages]

RunHook(w, h) ==
    IF h.fn = "_update_current_groups"
    THEN UpdateCurrentGroups(w, h.instance, h.groups)
    ELSE SendPreparedMessages(w, h.instance)

\* transaction.on_commit: queued inside an atomic block, run at once in
\* autocommit mode.
OnCommit(w, h) ==
    IF in_atomic_block
    THEN [w EXCEPT !.run_on_commit = Append(@, h)]
    ELSE RunHook(w, h)

\* ---------------------------------------------------------- database_event

\* Mutant: a create is diffed against current_groups like an update.
OldGroupNamesCurrent(w, i, action) == w.current_groups[i]

OldGroupNames(w, i, action) ==
    IF action = CREATE THEN {} ELSE w.current_groups[i]

\* Mutant: a delete computes the groups of the instance like an update.
NewGroupNamesComputed(f, action) == GroupNamesForSignal(f)

NewGroupNames(f, action) ==
    IF action = DELETE THEN {} ELSE GroupNamesForSignal(f)

\* Mutant: current_groups is updated when the event is handled.
PrepareMessagesEager(w, i, new_group_names) ==
    UpdateCurrentGroups(w, i, new_group_names)

\* prepare_messages registers the update of current_groups before it yields
\* the messages.
PrepareMessages(w, i, new_group_names) ==
    OnCommit(w, UpdateHook(i, new_group_names))

\* Mutant: the messages are appended to the queue.
SetPendingMessagesAppend(w, i, messages) ==
    [w EXCEPT !.pending_messages[i] = @ \o messages]

\* pending_messages = list(prepare_messages(...))
SetPendingMessages(w, i, messages) ==
    [w EXCEPT !.pending_messages[i] = messages]

\* Mutant: the messages are sent when the event is handled.
RegisterSendEager(w, i) == SendPreparedMessages(w, i)

\* connection.on_commit(partial(self.send_prepared_messages, instance))
RegisterSend(w, i) == OnCommit(w, SendHook(i))

\* No group_send has failed. (batch: the number of messages of the batch;
\* attempted: the number of group_sends called for it.)
NoFlush == [instance |-> "", batch |-> 0, failed |-> 0, attempted |-> 0]

\* send_prepared_messages when the group_send of its k-th message raises: the
\* queue has been cleared, the messages before the k-th have been sent, and
\* the exception leaves the loop.
SendPreparedMessagesRaises(w, i, k) ==
    LET messages == w.pending_messages[i]
    IN [w EXCEPT !.pending_messages[i] = <<>>,
                 !.channel = @ \o SubSeq(messages, 1, k - 1)]

\* The rows of the last committed state of the database.
CommittedRows == IF in_atomic_block THEN rows_at_begin ELSE rows

NoEvent ==
    [action |-> "none", before |-> {}, old |-> {}, new |-> {}, seq |-> 0,
     status |-> "none", base |-> {}, warned |-> FALSE]

\* Mutant: the warning is given for every event of a transaction.
DatabaseEventWarnsInAtomicBlock(atomic, savepoints) == atomic

\* database_event warns with UnsupportedWarning when the connection is in an
\* atomic block and has savepoints.
DatabaseEventWarns(atomic, savepoints) == atomic /\ savepoints > 0

\* The history of a database event; outside a transaction the window of
\* observed group_sends starts with the event.
RecordEvent(w, i, action, p, old_group_names, new_group_names) ==
    [w EXCEPT
        !.event[i] =
            [action |-> action,
             before |-> w.current_groups[i],
             old |-> old_group_names,
             new |-> new_group_names,
             seq |-> EventSeq(w),
             status |-> IF in_atomic_block THEN "open" ELSE "committed",
             base |-> IF w.event[i].status = "open" THEN w.event[i].base
                      ELSE IF p \in CommittedRows THEN w.committed_groups[i]
                      ELSE {},
             warned |-> DatabaseEventWarns(in_atomic_block, savepoint_ids)],
        !.committed_groups[i] = IF in_atomic_block THEN @ ELSE new_group_names,
        !.channel = IF in_atomic_block THEN @ ELSE <<>>,
        !.hooks_done = IF in_atomic_block THEN @ ELSE <<>>]

\* database_event(instance, action) for an instance whose primary key is p and
\* whose fields are f when the signal is sent: the worlds it may lead to (one
\* for each order in which the group sets are iterated).
DatabaseEvent(w, i, action, p, f) ==
    LET old_group_names == OldGroupNames(w, i, action)
        new_group_names == NewGroupNames(f, action)
        w0 == RecordEvent(w, i, action, p, old_group_names, new_group_names)
        w1 == PrepareMessages(w0, i, new_group_names)
    IN {RegisterSend(SetPendingMessages(w1, i, messages), i) :
            messages \in GenerateMessages(i, p, old_group_names, new_group_names,
                                          EventSeq(w))}

\* The callbacks of at most MaxTxEvents events are queued in one transaction.
EventAllowed == in_atomic_block => Len(run_on_commit) < 2 * MaxTxEvents

\* -------------------------------------------------------- signal receivers

PostInitReceiver(w, i, p, f) ==
    LET groups == IF p = None THEN {} ELSE GroupNamesForSignal(f)
    IN [w EXCEPT !.current_groups[i] = groups,
                 !.pending_messages[i] = <<>>]

PostSaveReceiver(w, i, created, p, f) ==
    IF created
    THEN DatabaseEvent(w, i, CREATE, p, f)
    ELSE DatabaseEvent(w, i, UPDATE, p, f)

PostDeleteReceiver(w, i, p, f) == DatabaseEvent(w, i, DELETE, p, f)

\* clear() sends m2m_changed with pk_set None.
NonePkSet == {None}

\* for pk in pk_set: iterating None raises TypeError.
M2mChangedRaises(action, reverse, pk_set) ==
    /\ action \in {"post_add", "post_remove", "post_clear"}
    /\ reverse
    /\ pk_set = NonePkSet

\* The instances database_event is called for: none for the pre_ actions.
M2mChangedTargets(action, reverse, target_instances) ==
    IF action \notin {"post_add", "post_remove", "post_clear"}
    THEN {}
    ELSE target_instances

NoSignal == [action |-> "none", reverse |-> FALSE, raised |-> FALSE, targets |-> {}]

\* m2m_changed of a relation of the model. When reverse is False the target is
\* the sender's instance i; when reverse is True the targets are the rows of
\* pk_set, each loaded by model.objects.get into a new instance (loads gives,
\* for each primary key of pk_set, the instance and the fields loaded).
M2mChangedReceiver(w, action, i, reverse, pk_set, loads) ==
    IF action \notin {"post_add", "post_remove", "post_clear"}
    THEN {w}
    ELSE IF ~reverse
    THEN DatabaseEvent(w, i, UPDATE, pk[i], fields[i])
    ELSE IF pk_set = {} \/ M2mChangedRaises(action, reverse, pk_set)
    THEN {w}
    ELSE LET p == CHOOSE q \in pk_set : TRUE
             target == loads[p]
         IN DatabaseEvent(PostInitReceiver(w, target.instance, p, target.fields),
                          target.instance, UPDATE, p, target.fields)

\* ------------------------------------------------------------ ORM actions

NoHooksRunning == current_run_on_commit = <<>>

\* Fields the groups function can read: none matter when the observer has no
\* groups function.
Fields == IF groups_for_signal_set THEN FieldValues ELSE {{}}

\* History: the groups of the committed row an instance stands for.
Loaded(w, i, p, f) ==
    [w EXCEPT !.committed_groups[i] =
        IF p \in CommittedRows THEN GroupNamesForSignal(f) ELSE {}]

tx_vars == <<in_atomic_block, current_run_on_commit, rows_at_begin, begin_groups>>

\* Model.__init__ (a new object, or a row loaded from the database) sends
\* post_init.
PostInit(i, p, f) ==
    /\ m2m_signal' = NoSignal
    /\ NoHooksRunning
    /\ i \notin instances
    /\ instances' = instances \cup {i}
    /\ pk' = [pk EXCEPT ![i] = p]
    /\ fields' = [fields EXCEPT ![i] = f]
    /\ LET w == PostInitReceiver(Loaded(World, i, p, f), i, p, f)
       IN /\ SetWorld(w)
          /\ begin_groups' = IF in_atomic_block
                             THEN [begin_groups EXCEPT ![i] = w.current_groups[i]]
                             ELSE begin_groups
    /\ UNCHANGED <<groups_for_signal_set, registry_vars, rows, in_atomic_block,
                   current_run_on_commit, rows_at_begin>>

\* instance.<field> = f; instance.save(): inserts the row when the instance has
\* no primary key or no row has it, updates the row otherwise; sends post_save.
Save(i, f) ==
    /\ m2m_signal' = NoSignal
    /\ NoHooksRunning
    /\ EventAllowed
    /\ i \in instances
    /\ \E p \in PKs :
         /\ IF pk[i] = None THEN p \notin rows ELSE p = pk[i]
         /\ pk' = [pk EXCEPT ![i] = p]
         /\ rows' = rows \cup {p}
         /\ fields' = [fields EXCEPT ![i] = f]
         /\ \E w \in PostSaveReceiver(World, i, p \notin rows, p, f) : SetWorld(w)
    /\ UNCHANGED <<groups_for_signal_set, registry_vars, instances, tx_vars>>

\* instance.delete() of an instance whose row exists: sends post_delete, then
\* clears the primary key.
Delete(i) ==
    /\ m2m_signal' = NoSignal
    /\ NoHooksRunning
    /\ EventAllowed
    /\ i \in instances
    /\ pk[i] \in rows
    /\ rows' = rows \ {pk[i]}
    /\ \E w \in PostDeleteReceiver(World, i, pk[i], fields[i]) : SetWorld(w)
    /\ pk' = [pk EXCEPT ![i] = None]
    /\ UNCHANGED <<groups_for_signal_set, registry_vars, instances, fields, tx_vars>>

M2mActions ==
    {"pre_add", "post_add", "pre_remove", "post_remove", "pre_clear", "post_clear"}

\* History: the m2m_changed signal sent, whether the receiver raised, and the
\* instances it called database_event for.
M2mSignal(action, reverse, pk_set, targets) ==
    [action |-> action, reverse |-> reverse,
     raised |-> M2mChangedRaises(action, reverse, pk_set),
     targets |-> IF M2mChangedRaises(action, reverse, pk_set) THEN {}
                 ELSE M2mChangedTargets(action, reverse, targets)]

\* instance.<relation>.add/remove/clear of a saved instance: sends m2m_changed
\* with reverse False.
M2mChanged(action, i) ==
    /\ NoHooksRunning
    /\ EventAllowed
    /\ i \in instances
    /\ pk[i] \in rows
    /\ \E w \in M2mChangedReceiver(World, action, i, FALSE, {}, <<>>) : SetWorld(w)
    /\ m2m_signal' = M2mSignal(action, FALSE, {}, {i})
    /\ UNCHANGED <<groups_for_signal_set, registry_vars, orm_vars, tx_vars>>

\* related.<relation>_set.add/remove(row p): sends m2m_changed with reverse
\* True and pk_set {p}; the receiver loads row p, with fields f, into the new
\* instance i.
M2mChangedReverse(action, i, p, f) ==
    /\ NoHooksRunning
    /\ EventAllowed
    /\ i \notin instances
    /\ p \in rows
    /\ instances' = IF action \in {"post_add", "post_remove"}
                    THEN instances \cup {i} ELSE instances
    /\ pk' = IF action \in {"post_add", "post_remove"}
             THEN [pk EXCEPT ![i] = p] ELSE pk
    /\ fields' = IF action \in {"post_add", "post_remove"}
                 THEN [fields EXCEPT ![i] = f] ELSE fields
    /\ \E w \in M2mChangedReceiver(
                    IF action \in {"post_add", "post_remove"}
                    THEN Loaded(World, i, p, f) ELSE World,
                    action, i, TRUE, {p},
                    [q \in {p} |-> [instance |-> i, fields |-> f]]) : SetWorld(w)
    /\ m2m_signal' = M2mSignal(action, TRUE, {p}, {i})
    /\ begin_groups' =
           IF in_atomic_block /\ action \in {"post_add", "post_remove"}
           THEN [begin_groups EXCEPT
                    ![i] = PostInitReceiver(World, i, p, f).current_groups[i]]
           ELSE begin_groups
    /\ UNCHANGED <<groups_for_signal_set, registry_vars, rows, in_atomic_block,
                   current_run_on_commit, rows_at_begin>>

\* ----------------------------------------------------------- transactions

Begin ==
    /\ m2m_signal' = NoSignal
    /\ NoHooksRunning
    /\ ~in_atomic_block
    /\ in_atomic_block' = TRUE
    /\ rows_at_begin' = rows
    /\ begin_groups' = current_groups
    /\ channel' = <<>>
    /\ hooks_done' = <<>>
    /\ event' = [i \in Instances |-> NoEvent]
    /\ UNCHANGED <<groups_for_signal_set, registry_vars, instances, pk, fields,
                   current_groups, pending_messages, run_on_commit,
                   current_run_on_commit, rows, committed_groups>>

\* The history fields of the open transaction's events and messages.
SetStatus(status) ==
    /\ event' = [i \in Instances |->
           IF event[i].status = "open"
           THEN [event[i] EXCEPT !.status = status] ELSE event[i]]
    /\ pending_messages' = [i \in Instances |->
           [k \in DOMAIN pending_messages[i] |->
               IF pending_messages[i][k].status = "open"
               THEN [pending_messages[i][k] EXCEPT !.status = status]
               ELSE pending_messages[i][k]]]

\* Leaving the atomic block without an exception: the transaction commits and
\* the callbacks registered in it are run.
Commit ==
    /\ m2m_signal' = NoSignal
    /\ NoHooksRunning
    /\ in_atomic_block
    /\ in_atomic_block' = FALSE
    /\ current_run_on_commit' = run_on_commit
    /\ run_on_commit' = <<>>
    /\ rows_at_begin' = {}
    /\ SetStatus("committed")
    /\ committed_groups' = [i \in Instances |->
           IF event[i].status = "open" THEN event[i].new ELSE committed_groups[i]]
    /\ begin_groups' = [i \in Instances |-> {}]
    /\ UNCHANGED <<groups_for_signal_set, registry_vars, instances, pk, fields,
                   current_groups, rows, channel, hooks_done>>

\* Leaving the atomic block with an exception: the transaction is rolled back
\* and its callbacks are dropped; the in-memory instances are left as they are.
RollbackTransaction ==
    /\ in_atomic_block' = FALSE
    /\ run_on_commit' = <<>>
    /\ rows' = rows_at_begin
    /\ rows_at_begin' = {}
    /\ SetStatus("rolled_back")
    /\ begin_groups' = [i \in Instances |-> {}]
    /\ UNCHANGED <<instances, pk, fields, current_groups, current_run_on_commit,
                   channel, committed_groups, hooks_done>>

Rollback ==
    /\ m2m_signal' = NoSignal
    /\ NoHooksRunning
    /\ in_atomic_block
    /\ RollbackTransaction
    /\ UNCHANGED <<groups_for_signal_set, registry_vars>>

\* related.<relation>_set.clear() while rows are linked: sends m2m_changed with
\* reverse True and pk_set None. An exception of the receiver leaves the atomic
\* block the clear runs in, which rolls it back.
M2mClearReverse(action) ==
    /\ NoHooksRunning
    /\ rows # {}
    /\ m2m_signal' = M2mSignal(action, TRUE, NonePkSet, {})
    /\ IF M2mChangedRaises(action, TRUE, NonePkSet) /\ in_atomic_block
       THEN RollbackTransaction
       ELSE /\ \E w \in M2mChangedReceiver(World, action, None, TRUE,
                                          NonePkSet, <<>>) : SetWorld(w)
            /\ UNCHANGED <<orm_vars, tx_vars>>
    /\ UNCHANGED <<groups_for_signal_set, registry_vars>>

\* run_and_clear_commit_hooks: the callbacks run one after the other.
RunCommitHook ==
    /\ m2m_signal' = NoSignal
    /\ current_run_on_commit # <<>>
    /\ LET h == Head(current_run_on_commit)
       IN SetWorld([RunHook(World, h) EXCEPT !.hooks_done = Append(@, h)])
    /\ current_run_on_commit' = Tail(current_run_on_commit)
    /\ UNCHANGED <<groups_for_signal_set, registry_vars, orm_vars, in_atomic_block,
                   rows_at_begin, begin_groups>>

\* run_and_clear_commit_hooks when the callback it runs is
\* send_prepared_messages and the group_send of the k-th message raises: the
\* callback is not robust, so the exception leaves the loop over the
\* callbacks, and those that were left are not run.
RunCommitHookRaises(k) ==
    /\ m2m_signal' = NoSignal
    /\ current_run_on_commit # <<>>
    /\ LET h == Head(current_run_on_commit)
       IN /\ h.fn = "send_prepared_messages"
          /\ k \in DOMAIN pending_messages[h.instance]
          /\ SetWorld(SendPreparedMessagesRaises(World, h.instance, k))
          /\ flush' = [instance |-> h.instance,
                       batch |-> Len(pending_messages[h.instance]),
                       failed |-> k,
                       attempted |-> k]
    /\ current_run_on_commit' = <<>>
    /\ UNCHANGED <<groups_for_signal_set, mixin, consumer_vars,
                   declaration_vars, connection_vars, savepoint_ids, orm_vars,
                   in_atomic_block, rows_at_begin, begin_groups,
                   extension_vars>>

\* -------------------------------------------------------------- savepoints

\* Atomic blocks nested in the outermost one.
MaxSavepoints == 1

\* Entering an atomic block inside an atomic block: Django appends an entry
\* to connection.savepoint_ids.
EnterSavepoint ==
    /\ NoHooksRunning
    /\ in_atomic_block
    /\ savepoint_ids < MaxSavepoints
    /\ savepoint_ids' = savepoint_ids + 1
    /\ UNCHANGED <<model_vars, rows, consumer_vars, declaration_vars,
                   connection_vars, flush, extension_vars>>

\* Leaving the nested block without an exception: its entry is popped and the
\* callbacks registered in it stay registered.
ReleaseSavepoint ==
    /\ NoHooksRunning
    /\ in_atomic_block
    /\ savepoint_ids > 0
    /\ savepoint_ids' = savepoint_ids - 1
    /\ UNCHANGED <<model_vars, rows, consumer_vars, declaration_vars,
                   connection_vars, flush, extension_vars>>

\* The outermost block is left after the blocks nested in it.
CommitOutermost == savepoint_ids = 0 /\ Commit
RollbackOutermost == savepoint_ids = 0 /\ Rollback

\* ----------------------------------------------------------- declarations
\* The observers two consumer classes of one module declare, the groups one
\* websocket connection joins by subscribing through one of them, and the
\* groups an observed change is sent to.

\* The observers declared, and the models they may observe (None: no model).
ObserverIds == {1, 2}
Models == {1, 2}
\* Names of the handler functions, all defined in the module FuncModule.
FuncNames == {"handler", "other"}
FuncModule == "tests"
\* Raw tokens a groups function yields for its arguments.
GroupTokens == {"A", "B"}

\* ObserverAPIConsumerMetaclass.__new__: the name it binds the observer of the
\* class of o with, module.ClassName.attribute.
MetaclassName(o) ==
    IF o = 1 THEN "tests.A.handle_instance_change"
    ELSE "tests.B.handle_instance_change"

\* ModelObserver.model_label: app label and object name of the bound model.
ModelLabel(model_cls) == IF model_cls = 1 THEN "tests.user" ELSE "tests.comment"

\* No observer is declared under this name yet.
NoObserver ==
    [declared |-> FALSE, func |-> "", stable_observer_id |-> <<>>,
     group_names_for_signal |-> FALSE, group_names_for_consumer |-> FALSE,
     model_cls |-> None, connected |-> {}]

\* BaseObserver.__init__
BaseObserverInit(func, partition) ==
    [declared |-> TRUE, func |-> func,
     stable_observer_id |-> <<partition, "ModelObserver", FuncModule, func>>,
     group_names_for_signal |-> FALSE, group_names_for_consumer |-> FALSE,
     model_cls |-> None, connected |-> {}]

\* ModelObserver._connect: the receivers are connected to the signals sent by
\* model_cls (connected: the senders they are connected to).
Connect(ob) == [ob EXCEPT !.connected = @ \cup {ob.model_cls}]

\* The setter of ModelObserver.model_cls
SetModelCls(ob, value) ==
    LET was_none == ob.model_cls = None
        bound == [ob EXCEPT !.model_cls = value]
    IN IF value # None /\ was_none THEN Connect(bound) ELSE bound

\* ModelObserver.__init__
ModelObserverInit(func, model_cls, partition) ==
    SetModelCls(BaseObserverInit(func, partition), model_cls)

\* BaseObserver.groups_for_consumer, groups_for_signal and groups: which of
\* the two groups functions the decorated function becomes.
GroupsForConsumer(ob) == [ob EXCEPT !.group_names_for_consumer = TRUE]
GroupsForSignal(ob) == [ob EXCEPT !.group_names_for_signal = TRUE]
Groups(ob) ==
    [ob EXCEPT !.group_names_for_consumer = TRUE,
               !.group_names_for_signal = TRUE]

\* _GenericModelObserver.bind_to_model, called by ObserverAPIConsumerMetaclass
\* with name = module.ClassName.attribute.
BindToModel(func, model_cls, name) ==
    Groups(ModelObserverInit(func, model_cls, name))

\* ModelObserver.group_names: one group for all instances of the model.
ObserverGroupNames(ob) ==
    <<<<ob.stable_observer_id, ob.func, "model", ModelLabel(ob.model_cls)>>>>

\* BaseObserver.group_names_for_consumer, as list(...): token is what the
\* user's groups function yields for the arguments of subscribe.
ObserverGroupNamesForConsumer(ob, token) ==
    IF ob.group_names_for_consumer
    THEN <<CleanGroupName(<<ob.stable_observer_id, token>>)>>
    ELSE [k \in DOMAIN ObserverGroupNames(ob) |->
             CleanGroupName(ObserverGroupNames(ob)[k])]

\* BaseObserver.group_names_for_signal: token is what the user's groups
\* function yields for the instance.
ObserverGroupNamesForSignal(ob, token) ==
    IF ob.group_names_for_signal
    THEN <<CleanGroupName(<<ob.stable_observer_id, token>>)>>
    ELSE [k \in DOMAIN ObserverGroupNames(ob) |->
             CleanGroupName(ObserverGroupNames(ob)[k])]

NoConnection == [groups |-> {}, via |-> {}]

NoProbe ==
    [op |-> "none", observer |-> 0, value |-> None, token |-> "",
     group_names |-> <<>>, delivered |-> FALSE, raised |-> FALSE,
     before |-> NoObserver]

NoDeclarations ==
    /\ observers = [o \in ObserverIds |-> NoObserver]
    /\ connection = NoConnection
    /\ probe = NoProbe

\* Classes are defined before a connection is served.
Declaring == connection = NoConnection /\ probe.op \in {"none", "model_cls"}

\* @model_observer(model) on a method of the consumer class of o.
ModelObserverDecorator(o, func, model_cls) ==
    /\ Declaring
    /\ ~observers[o].declared
    /\ observers' = [observers EXCEPT ![o] = ModelObserverInit(func, model_cls, "*")]
    /\ UNCHANGED <<connection, probe>>
    /\ UNCHANGED <<idle_vars, connection_vars>>

\* The class of o is an ObserverModelInstanceMixin with a queryset of
\* model_cls: its metaclass binds handle_instance_change.
MetaclassNew(o, model_cls) ==
    /\ Declaring
    /\ ~observers[o].declared
    /\ observers' =
           [observers EXCEPT ![o] =
               BindToModel("handle_instance_change", model_cls,
                           MetaclassName(o))]
    /\ UNCHANGED <<connection, probe>>
    /\ UNCHANGED <<idle_vars, connection_vars>>

\* @handler.groups_for_consumer
DecorateGroupsForConsumer(o) ==
    /\ Declaring
    /\ observers[o].declared
    /\ observers' = [observers EXCEPT ![o] = GroupsForConsumer(@)]
    /\ UNCHANGED <<connection, probe>>
    /\ UNCHANGED <<idle_vars, connection_vars>>

\* @handler.groups_for_signal
DecorateGroupsForSignal(o) ==
    /\ Declaring
    /\ observers[o].declared
    /\ observers' = [observers EXCEPT ![o] = GroupsForSignal(@)]
    /\ UNCHANGED <<connection, probe>>
    /\ UNCHANGED <<idle_vars, connection_vars>>

\* @handler.groups
DecorateGroups(o) ==
    /\ Declaring
    /\ observers[o].declared
    /\ observers' = [observers EXCEPT ![o] = Groups(@)]
    /\ UNCHANGED <<connection, probe>>
    /\ UNCHANGED <<idle_vars, connection_vars>>

\* observer.model_cls = value
AssignModelCls(o, value) ==
    /\ observers[o].declared
    /\ observers' = [observers EXCEPT ![o] = SetModelCls(@, value)]
    /\ probe' = [NoProbe EXCEPT !.op = "model_cls", !.observer = o,
                                !.value = value, !.before = observers[o]]
    /\ UNCHANGED connection
    /\ UNCHANGED <<idle_vars, connection_vars>>

\* Whether the groups of the observer can be named: model_label reads the
\* bound model.
Bound(ob) == ob.declared /\ ob.model_cls # None

\* A connection of the consumer class of o subscribes through o: it joins the
\* groups BaseObserver.subscribe resolves.
ConnectionSubscribe(o, token) ==
    /\ Bound(observers[o])
    /\ connection = NoConnection
    /\ LET group_names == ObserverGroupNamesForConsumer(observers[o], token)
       IN /\ connection' =
                 [groups |-> {group_names[k] : k \in DOMAIN group_names},
                  via |-> {o}]
          /\ probe' = [NoProbe EXCEPT !.op = "subscribe", !.observer = o,
                                      !.token = token,
                                      !.group_names = group_names]
    /\ UNCHANGED observers
    /\ UNCHANGED <<idle_vars, connection_vars>>

\* A committed change of an instance of a model the receivers of o are
\* connected to: its message is sent to the groups group_names_for_signal
\* names, and the channel layer hands it to every connection in one of them.
Signal(o, token) ==
    /\ Bound(observers[o])
    /\ observers[o].connected # {}
    /\ LET group_names == ObserverGroupNamesForSignal(observers[o], token)
       IN probe' = [NoProbe EXCEPT
                        !.op = "signal", !.observer = o, !.token = token,
                        !.group_names = group_names,
                        !.delivered =
                            \E k \in DOMAIN group_names :
                                group_names[k] \in connection.groups]
    /\ UNCHANGED <<observers, connection>>
    /\ UNCHANGED <<idle_vars, connection_vars>>


\* ------------------------------------------------------------ connections
\* Two websocket connections of one consumer class that declares two
\* handlers with @model_observer and a groups function each; every connection
\* is a consumer instance with its own groups and its own
\* _observer_group_to_request_id.

Connections == {1, 2}
\* The <<connection, observer, token>> the clients' requests name: two groups
\* of one observer and one of the other on connection 1, and one group that
\* both connections name.
Targets == {<<1, 1, "A">>, <<1, 1, "B">>, <<1, 2, "A">>, <<2, 1, "A">>}

\* The observer the class declares under the name "handler" (1) or "other" (2).
ClassObserver(o) ==
    Groups(ModelObserverInit(IF o = 1 THEN "handler" ELSE "other", 1, "*"))

StableObserverIds ==
    {ClassObserver(o).stable_observer_id : o \in ObserverIds}

\* AsyncAPIConsumer.__init__: _observer_group_to_request_id is a defaultdict
\* of defaultdicts, so an observer id without an entry reads as an empty dict.
NoConnections ==
    [n \in Connections |->
        [groups |-> {},
         registry |-> [id \in StableObserverIds |-> <<>>],
         raised |-> FALSE]]

\* The consumer as an observer sees it:
\* consumer._observer_group_to_request_id[self._stable_observer_id].
ObserverConsumer(consumer, ob) ==
    [groups |-> consumer.groups,
     registry |-> consumer.registry[ob.stable_observer_id],
     subscribed |-> <<>>,
     group_add |-> <<>>,
     group_discard |-> <<>>,
     raised |-> consumer.raised]

\* The consumer after a call of the observer.
ConsumerAfter(consumer, ob, c) ==
    [groups |-> c.groups,
     registry |-> [consumer.registry EXCEPT
                      ![ob.stable_observer_id] = c.registry],
     raised |-> c.raised]

NoInvocations == {}

InitialConnections ==
    /\ connections = NoConnections
    /\ subscriptions = {}
    /\ invocations = NoInvocations

\* ----------------------------------------------------------- channel layer
\* The in-memory channel layer between the observer's group_send and the
\* connections: group_add and group_discard change the membership of a group,
\* group_send puts one copy of the message into the inbox of every channel
\* that is a member when it is called.

\* Committed events the observer sends to the channel layer.
MaxEvents == 2

\* The <<connection, token, request id>> the subscribe and unsubscribe
\* requests name: one group that both connections name, connection 1 under
\* two request ids, and a second group.
DeliveryTargets == {<<1, "A", 4>>, <<1, "A", 5>>, <<2, "A", None>>, <<1, "B", None>>}

NoDelivery ==
    /\ layer_groups = {}
    /\ inbox = [n \in Connections |-> <<>>]
    /\ closed = {}
    /\ sent_log = <<>>
    /\ deliveries = [n \in Connections |-> <<>>]

\* ---------------------------------------------------------------- actions
\* One connection of a consumer that declares a detached action and an action
\* that is not detached, as in tests/test_consumer.py.

NoActions ==
    /\ mailbox = <<>>
    /\ received = <<>>
    /\ tasks = <<>>
    /\ replies = <<>>
    /\ serving = TRUE

\* ---------------------------------------------------------------- writers
\* Two writers (threads or processes) with a database connection each.

Writers == {1, 2}

\* A writer that has not loaded the row. (loaded is history: the fields of
\* the row when the writer loaded it.)
NoWriter ==
    [pc |-> "idle", fields |-> {}, loaded |-> {}, current_groups |-> {},
     pending_messages |-> <<>>, run_on_commit |-> <<>>]

NoWriters ==
    /\ writers = [writer \in Writers |-> NoWriter]
    /\ row_history = <<>>
    /\ broadcast = <<>>

\* No consumer class observes the model with the many-to-many field yet.
NoRelations ==
    relations = [declared |-> FALSE, many_to_many |-> FALSE, connected |-> {}]

\* The instances two observers of one model track, the observers, and the
\* fields of an instance (the tokens the groups functions read).
StateInstances == {"x", "y"}
StateObservers == {1, 2}
StateFields == {{"A"}, {"B"}}

\* ModelObserverInstanceState(): the attributes read the class defaults.
ModelObserverInstanceState == [current_groups |-> {}, pending_messages |-> <<>>]

\* No instance is constructed, no transaction is open.
NoStates ==
    /\ observer_states =
           [i \in StateInstances |->
               [constructed |-> FALSE, pk |-> None, fields |-> {},
                thread_local_observers |-> <<>>]]
    /\ state_tx = [in_atomic_block |-> FALSE, run_on_commit |-> <<>>]
    /\ state_call = [op |-> "none", instance |-> "", pk |-> None, fields |-> {}]

\* No list request has arrived.
NoStream ==
    stream = [pc |-> "idle", count |-> 0, request |-> <<>>, kwargs |-> <<>>,
              request_id |-> None, replies |-> <<>>]

NoExtensions ==
    /\ NoDelivery
    /\ NoActions
    /\ NoWriters
    /\ NoRelations
    /\ NoStates
    /\ NoStream

\* ---------------------------------------------------------- specification

\* No operation on the consumer yet.
NoCall ==
    [op |-> "none", pk |-> None, request_id |-> None, group_names |-> <<>>,
     group_add |-> <<>>, group_discard |-> <<>>, raised |-> FALSE,
     status |-> 0, handled |-> <<>>, sent |-> <<>>, permitted |-> TRUE,
     before |-> [groups |-> {}, registry |-> <<>>, subscribed |-> <<>>]]

\* A consumer that has subscribed to nothing.
NoSubscriptions ==
    /\ consumer_groups = {}
    /\ observer_group_to_request_id = <<>>
    /\ subscribed_requests = <<>>
    /\ call = NoCall

Init ==
    /\ groups_for_signal_set \in BOOLEAN
    /\ mixin = FALSE
    /\ NoSubscriptions
    /\ NoDeclarations
    /\ InitialConnections
    /\ savepoint_ids = 0
    /\ flush = NoFlush
    /\ NoExtensions
    /\ m2m_signal = NoSignal
    /\ instances = {}
    /\ pk = [i \in Instances |-> None]
    /\ fields = [i \in Instances |-> {}]
    /\ current_groups = [i \in Instances |-> {}]
    /\ pending_messages = [i \in Instances |-> <<>>]
    /\ in_atomic_block = FALSE
    /\ run_on_commit = <<>>
    /\ current_run_on_commit = <<>>
    /\ rows \in SUBSET PKs
    /\ rows_at_begin = {}
    /\ channel = <<>>
    /\ event = [i \in Instances |-> NoEvent]
    /\ committed_groups = [i \in Instances |-> {}]
    /\ begin_groups = [i \in Instances |-> {}]
    /\ hooks_done = <<>>

Next ==
    \/ \E i \in Instances, p \in PKs \cup {None}, f \in Fields : PostInit(i, p, f)
    \/ \E i \in Instances, f \in Fields : Save(i, f)
    \/ \E i \in Instances : Delete(i)
    \/ \E i \in Instances, action \in M2mActions : M2mChanged(action, i)
    \/ \E i \in Instances, action \in M2mActions \ {"pre_clear", "post_clear"},
          p \in PKs, f \in Fields : M2mChangedReverse(action, i, p, f)
    \/ \E action \in {"pre_clear", "post_clear"} : M2mClearReverse(action)
    \/ Begin
    \/ Commit
    \/ Rollback
    \/ RunCommitHook

Spec == Init /\ [][Next]_vars

\* ----------------------------------------------------------- the consumer
\* One websocket connection: an AsyncAPIConsumer whose observer handler has a
\* groups function keyed by one value of the instance (its primary key for
\* ObserverModelInstanceMixin.handle_instance_change, its username for a
\* handler declared with @model_observer), and the requests it handles.

\* Primary keys of the rows a client may name, and the request ids it sends.
RegistryPKs == {1, 2}
RequestIds == {4, 5}

\* The token the groups function yields for the instance with primary key p.
PkToken(p) == IF p = 1 THEN "A" ELSE "B"

\* The fields of the row with primary key p that the groups function reads.
RowFields(p) == {PkToken(p)}

UserGroupNamesForConsumer(p) == <<PkToken(p)>>

\* list(self.group_names_for_consumer(...))
GroupNamesForConsumer(p) ==
    [k \in DOMAIN UserGroupNamesForConsumer(p) |->
        CleanGroupName(<<StableObserverId, UserGroupNamesForConsumer(p)[k]>>)]

\* A dict as a function: lookup with a default, item assignment and pop.
DictGet(d, key) == IF key \in DOMAIN d THEN d[key] ELSE {}
DictSet(d, key, value) ==
    [x \in DOMAIN d \cup {key} |-> IF x = key THEN value ELSE d[x]]
DictPop(d, key) == [x \in DOMAIN d \ {key} |-> d[x]]

\* An insertion-ordered dict (subscribed_requests) as the list of its items.
ItemKeys(items) == {items[k].group : k \in DOMAIN items}
ItemsGet(items, group) ==
    IF group \in ItemKeys(items)
    THEN (CHOOSE k \in DOMAIN items : items[k].group = group)
    ELSE 0
ItemsValue(items, group) ==
    IF group \in ItemKeys(items)
    THEN items[ItemsGet(items, group)].request_ids
    ELSE {}
ItemsSet(items, group, request_ids) ==
    IF group \in ItemKeys(items)
    THEN [items EXCEPT ![ItemsGet(items, group)].request_ids = request_ids]
    ELSE Append(items, [group |-> group, request_ids |-> request_ids])
ItemsPop(items, groups) ==
    SelectSeq(items, LAMBDA item : item.group \notin groups)

\* The consumer while it handles one request or one channel message: its
\* state, the group_add and group_discard calls it has made on the channel
\* layer, and whether an exception has left the handler.
Consumer ==
    [groups |-> consumer_groups,
     registry |-> observer_group_to_request_id,
     subscribed |-> subscribed_requests,
     group_add |-> <<>>,
     group_discard |-> <<>>,
     raised |-> FALSE]

\* Mutant: the group is added to the channel layer on every call.
AddGroupAlways(c, name) ==
    [c EXCEPT !.group_add = Append(@, name), !.groups = @ \cup {name}]

AddGroup(c, name) ==
    IF name \notin c.groups
    THEN [c EXCEPT !.group_add = Append(@, name), !.groups = @ \cup {name}]
    ELSE c

\* Mutant: the group leaves the consumer's set without a group_discard.
RemoveGroupSilently(c, name) ==
    [c EXCEPT !.groups = @ \ {name}]

RemoveGroup(c, name) ==
    IF name \in c.groups
    THEN [c EXCEPT !.group_discard = Append(@, name), !.groups = @ \ {name}]
    ELSE c

\* One iteration of the loop of BaseObserver.subscribe.
SubscribeGroup(c, group_name, request_id) ==
    AddGroup(
        IF request_id # None
        THEN [c EXCEPT !.registry =
                 DictSet(@, group_name, DictGet(@, group_name) \cup {request_id})]
        ELSE c,
        group_name)

RECURSIVE BaseObserverSubscribe(_, _, _)
BaseObserverSubscribe(c, groups, request_id) ==
    IF groups = <<>>
    THEN c
    ELSE BaseObserverSubscribe(SubscribeGroup(c, Head(groups), request_id),
                               Tail(groups), request_id)

\* One iteration of the loop of BaseObserver.unsubscribe. set.remove raises
\* KeyError for a request id that is not in the set; reading the defaultdict
\* for the length test creates the entry of a group that has none.
UnsubscribeGroup(c, group_name, request_id) ==
    LET present == group_name \in DOMAIN c.registry
        removed == IF ~present THEN c.registry
                   ELSE IF request_id = None THEN DictPop(c.registry, group_name)
                   ELSE DictSet(c.registry, group_name,
                                c.registry[group_name] \ {request_id})
        read == DictSet(removed, group_name, DictGet(removed, group_name))
        c1 == [c EXCEPT !.registry = read]
    IN IF c.raised
       THEN c
       ELSE IF present /\ request_id # None /\ request_id \notin c.registry[group_name]
       THEN [c EXCEPT !.raised = TRUE]
       ELSE IF Cardinality(read[group_name]) > 0
       THEN RemoveGroup(c1, group_name)
       ELSE c1

RECURSIVE BaseObserverUnsubscribe(_, _, _)
BaseObserverUnsubscribe(c, groups, request_id) ==
    IF groups = <<>>
    THEN c
    ELSE BaseObserverUnsubscribe(UnsubscribeGroup(c, Head(groups), request_id),
                                 Tail(groups), request_id)

\* ObserverConsumerMixin._subscribe
RECURSIVE RegistrySubscribe(_, _, _)
RegistrySubscribe(c, request_id, groups) ==
    IF groups = <<>>
    THEN c
    ELSE RegistrySubscribe(
             [c EXCEPT !.subscribed =
                 ItemsSet(@, Head(groups),
                          ItemsValue(@, Head(groups)) \cup {request_id})],
             request_id, Tail(groups))

\* ObserverConsumerMixin._unsubscribe_groups
UnsubscribeGroups(c, groups) ==
    [c EXCEPT !.subscribed = ItemsPop(@, groups)]

\* ObserverConsumerMixin._unsubscribe: the loop visits every item; set.remove
\* raises KeyError at the first one that does not hold the request id, after
\* the id was removed from the items before it.
RegistryUnsubscribe(c, request_id) ==
    LET items == c.subscribed
        missing == {k \in DOMAIN items : request_id \notin items[k].request_ids}
        stop == IF missing = {} THEN Len(items) + 1
                ELSE CHOOSE k \in missing : \A j \in missing : k <= j
        removed == [k \in DOMAIN items |->
                       IF k < stop
                       THEN [items[k] EXCEPT !.request_ids = @ \ {request_id}]
                       ELSE items[k]]
        to_remove == {removed[k].group :
                         k \in {j \in DOMAIN items : removed[j].request_ids = {}}}
    IN IF missing # {}
       THEN [c EXCEPT !.subscribed = removed, !.raised = TRUE]
       ELSE UnsubscribeGroups([c EXCEPT !.subscribed = removed], to_remove)

\* Mutant: the handler replies to the request ids of every group.
RequestsForAll(items, group) ==
    UNION {items[k].request_ids : k \in DOMAIN items}

\* ObserverConsumerMixin._requests_for, for the group of a message.
RequestsFor(items, group) == ItemsValue(items, group)

\* The state a call found, kept as history in call.before.
Before ==
    [groups |-> consumer_groups,
     registry |-> observer_group_to_request_id,
     subscribed |-> subscribed_requests]

\* The consumer after a call, and the history of the call.
SetConsumer(c, op, p, request_id, group_names, status, handled, sent, permitted) ==
    /\ consumer_groups' = c.groups
    /\ observer_group_to_request_id' = c.registry
    /\ subscribed_requests' = c.subscribed
    /\ call' = [op |-> op, pk |-> p, request_id |-> request_id,
                group_names |-> group_names, group_add |-> c.group_add,
                group_discard |-> c.group_discard, raised |-> c.raised,
                status |-> status, handled |-> handled, sent |-> sent,
                permitted |-> permitted,
                before |-> Before]

\* Everything of the model observer but the rows: the consumer's requests do
\* not touch it, and a mutation made in autocommit mode by another thread
\* leaves nothing behind but its row and its group_sends.
observer_vars ==
    <<model_vars, declaration_vars, connection_vars, savepoint_ids, flush,
      extension_vars>>

\* An uncaught exception ends the consumer: it handles nothing after it.
ConsumerRunning == ~call.raised

\* Mutant: the action is handled whatever has_permission returns.
CheckPermissionsAllow(permitted) == TRUE

\* AsyncAPIConsumer.check_permissions: it raises PermissionDenied when a
\* permission's has_permission returns false (permitted is what it returns).
CheckPermissions(permitted) == permitted

\* handle_action passes the PermissionDenied of check_permissions to
\* handle_exception, which replies with its status code and the request id; the
\* action method is not called.
PermissionDenied(op, p, request_id, permitted) ==
    SetConsumer(Consumer, op, p, request_id, <<>>, 403, <<>>, <<>>, permitted)

\* The action `subscribe` of a consumer whose handler is declared with
\* @model_observer: observer.subscribe(username=..., request_id=request_id).
Subscribe(p, request_id, permitted) ==
    /\ ConsumerRunning
    /\ ~mixin
    /\ IF ~CheckPermissions(permitted)
       THEN PermissionDenied("subscribe", p, request_id, permitted)
       ELSE SetConsumer(
                BaseObserverSubscribe(Consumer, GroupNamesForConsumer(p),
                                      request_id),
                "subscribe", p, request_id, GroupNamesForConsumer(p), 200,
                <<>>, <<>>, permitted)
    /\ UNCHANGED <<observer_vars, rows>>

\* Its action `unsubscribe`: observer.unsubscribe(username=..., request_id=...).
Unsubscribe(p, request_id, permitted) ==
    /\ ConsumerRunning
    /\ ~mixin
    /\ IF ~CheckPermissions(permitted)
       THEN PermissionDenied("unsubscribe", p, request_id, permitted)
       ELSE LET c == BaseObserverUnsubscribe(Consumer, GroupNamesForConsumer(p),
                                             request_id)
            IN SetConsumer(c, "unsubscribe", p, request_id,
                           GroupNamesForConsumer(p),
                           IF c.raised THEN 0 ELSE 200, <<>>, <<>>, permitted)
    /\ UNCHANGED <<observer_vars, rows>>

\* Mutant: the lookup finds an instance for every primary key.
GetObjectAny(visible_rows, p) == TRUE

\* GenericAsyncAPIConsumer.get_object: whether get_object_or_404 finds the row;
\* it raises Http404 otherwise.
GetObject(visible_rows, p) == p \in visible_rows

\* RetrieveModelMixin.retrieve: the Http404 of get_object is turned into a 404
\* reply by handle_exception.
Retrieve(visible_rows, p) == IF GetObject(visible_rows, p) THEN 200 ELSE 404

\* ObserverModelInstanceMixin.subscribe_instance
SubscribeInstance(p, request_id, permitted) ==
    /\ ConsumerRunning
    /\ mixin
    /\ IF ~CheckPermissions(permitted)
       THEN PermissionDenied("subscribe_instance", p, request_id, permitted)
       ELSE IF request_id = None
       THEN SetConsumer([Consumer EXCEPT !.raised = TRUE], "subscribe_instance",
                        p, request_id, <<>>, 0, <<>>, <<>>, permitted)
       ELSE IF ~GetObject(rows, p)
       THEN SetConsumer(Consumer, "subscribe_instance", p, request_id, <<>>,
                        404, <<>>, <<>>, permitted)
       ELSE LET groups == GroupNamesForConsumer(p)
                c == BaseObserverSubscribe(Consumer, groups, None)
            IN SetConsumer(RegistrySubscribe(c, request_id, groups),
                           "subscribe_instance", p, request_id, groups, 201,
                           <<>>, <<>>, permitted)
    /\ UNCHANGED <<observer_vars, rows>>

\* ObserverModelInstanceMixin.unsubscribe_instance
UnsubscribeInstance(p, request_id, permitted) ==
    /\ ConsumerRunning
    /\ mixin
    /\ IF ~CheckPermissions(permitted)
       THEN PermissionDenied("unsubscribe_instance", p, request_id, permitted)
       ELSE IF ~GetObject(rows, p)
       THEN SetConsumer(Consumer, "unsubscribe_instance", p, request_id, <<>>,
                        404, <<>>, <<>>, permitted)
       ELSE LET groups == GroupNamesForConsumer(p)
                c == BaseObserverUnsubscribe(Consumer, groups, None)
                c1 == IF request_id = None
                      THEN UnsubscribeGroups(c, Range(groups))
                      ELSE RegistryUnsubscribe(c, request_id)
            IN SetConsumer(c1, "unsubscribe_instance", p, request_id, groups,
                           IF c1.raised THEN 0 ELSE 204, <<>>, <<>>, permitted)
    /\ UNCHANGED <<observer_vars, rows>>

\* BaseObserver.__call__: reading the requests of the group creates its entry.
ObserverCall(c, message) ==
    [c EXCEPT !.registry = DictSet(@, message.group, DictGet(@, message.group))]

\* Mutant: the handler is given the request ids of all groups of the observer.
HandledAllGroups(c, message) ==
    [group |-> message.group, action |-> message.action,
     subscribing_request_ids |->
         UNION {c.registry[group] : group \in DOMAIN c.registry}]

\* The handler invocation __call__ makes.
Handled(c, message) ==
    [group |-> message.group, action |-> message.action,
     subscribing_request_ids |-> DictGet(c.registry, message.group)]

\* Mutant: a delete is retrieved like the other actions.
ReplyStatusRetrieveAlways(visible_rows, message) ==
    Retrieve(visible_rows, message.body)

\* The status of a reply of handle_observed_action: 204 for a delete, without
\* a look at the rows; the outcome of retrieve otherwise.
ReplyStatus(visible_rows, message) ==
    IF message.action = DELETE
    THEN 204
    ELSE Retrieve(visible_rows, message.body)

\* Mutant: the handler replies to one of the request ids only.
HandlerSendsFirstOnly(c, message, visible_rows) ==
    IF RequestsFor(c.subscribed, message.group) = {}
    THEN {<<>>}
    ELSE {<<[action |-> message.action, body |-> message.body,
             request_id |-> request_id, subscribing_request_ids |-> {},
             status |-> ReplyStatus(visible_rows, message)]>> :
          request_id \in RequestsFor(c.subscribed, message.group)}

\* What the handler sends to the client, in the orders it may send it:
\* handle_observed_action replies once for each request id of the group (204
\* for a delete, the retrieved instance otherwise); the handler declared with
\* @model_observer sends one message that lists the request ids.
HandlerSends(c, message, visible_rows) ==
    IF mixin
    THEN {[k \in DOMAIN s |->
              [action |-> message.action, body |-> message.body,
               request_id |-> s[k], subscribing_request_ids |-> {},
               status |-> ReplyStatus(visible_rows, message)]] :
          s \in Orderings(RequestsFor(c.subscribed, message.group))}
    ELSE {<<[action |-> message.action, body |-> message.body,
             request_id |-> None,
             subscribing_request_ids |-> DictGet(c.registry, message.group),
             status |-> 0]>>}

\* handle_exception for the PermissionDenied of a pushed action: the error
\* reply carries the action and no request id.
DeniedReply(message) ==
    [action |-> message.action, body |-> None, request_id |-> None,
     subscribing_request_ids |-> {}, status |-> 403]

\* The handler as the consumer runs it: handle_observed_action checks the
\* permissions of the pushed action first and hands PermissionDenied to
\* handle_exception, then runs the loop over the request ids of the group; a
\* handler declared with @model_observer checks no permission.
HandleObservedAction(c, message, visible_rows, permitted) ==
    IF mixin /\ ~CheckPermissions(permitted)
    THEN {<<DeniedReply(message)>> \o sends :
              sends \in HandlerSends(c, message, visible_rows)}
    ELSE HandlerSends(c, message, visible_rows)

\* The channel layer hands a group_send to the consumer when its channel is in
\* the group; the consumer dispatches it to the observer.
Dispatch(o, message, visible_rows, permitted) ==
    IF message.group \notin o.c.groups
    THEN {o}
    ELSE {[c |-> ObserverCall(o.c, message),
           handled |-> Append(o.handled, Handled(o.c, message)),
           sent |-> o.sent \o sends] :
              sends \in HandleObservedAction(o.c, message, visible_rows,
                                             permitted)}

RECURSIVE DispatchAll(_, _, _, _)
DispatchAll(outcomes, messages, visible_rows, permitted) ==
    IF messages = <<>>
    THEN outcomes
    ELSE DispatchAll(UNION {Dispatch(o, Head(messages), visible_rows, permitted) :
                                o \in outcomes},
                     Tail(messages), visible_rows, permitted)

\* Another thread creates, saves or deletes the row with primary key p in
\* autocommit mode, on an instance it constructed (create) or loaded for
\* that; the consumer handles the messages sent to its groups. permitted is
\* what the consumer's permissions answer for the pushed action.
RegistryMutation(p, action, permitted) ==
    /\ ConsumerRunning
    /\ ~in_atomic_block
    /\ IF action = CREATE THEN p \notin rows ELSE p \in rows
    /\ rows' = IF action = CREATE THEN rows \cup {p}
               ELSE IF action = DELETE THEN rows \ {p}
               ELSE rows
    /\ \E i \in Instances :
          \E w \in DatabaseEvent(
                      PostInitReceiver(World, i,
                                       IF action = CREATE THEN None ELSE p,
                                       RowFields(p)),
                      i, action, p, RowFields(p)) :
             \E o \in DispatchAll({[c |-> Consumer, handled |-> <<>>,
                                    sent |-> <<>>]}, w.channel, rows',
                                  permitted) :
                SetConsumer(o.c, action, p, None, <<>>, 0, o.handled, o.sent,
                            permitted)
    /\ UNCHANGED observer_vars

InitRegistry ==
    /\ groups_for_signal_set = TRUE
    /\ mixin \in BOOLEAN
    /\ NoSubscriptions
    /\ NoDeclarations
    /\ InitialConnections
    /\ savepoint_ids = 0
    /\ flush = NoFlush
    /\ NoExtensions
    /\ m2m_signal = NoSignal
    /\ instances = {}
    /\ pk = [i \in Instances |-> None]
    /\ fields = [i \in Instances |-> {}]
    /\ current_groups = [i \in Instances |-> {}]
    /\ pending_messages = [i \in Instances |-> <<>>]
    /\ in_atomic_block = FALSE
    /\ run_on_commit = <<>>
    /\ current_run_on_commit = <<>>
    /\ rows \in SUBSET RegistryPKs
    /\ rows_at_begin = {}
    /\ channel = <<>>
    /\ event = [i \in Instances |-> NoEvent]
    /\ committed_groups = [i \in Instances |-> {}]
    /\ begin_groups = [i \in Instances |-> {}]
    /\ hooks_done = <<>>

NextRegistry ==
    \/ \E p \in RegistryPKs, request_id \in RequestIds \cup {None},
          permitted \in BOOLEAN : Subscribe(p, request_id, permitted)
    \/ \E p \in RegistryPKs, request_id \in RequestIds \cup {None},
          permitted \in BOOLEAN : Unsubscribe(p, request_id, permitted)
    \/ \E p \in RegistryPKs, request_id \in RequestIds \cup {None},
          permitted \in BOOLEAN : SubscribeInstance(p, request_id, permitted)
    \/ \E p \in RegistryPKs, request_id \in RequestIds \cup {None},
          permitted \in BOOLEAN : UnsubscribeInstance(p, request_id, permitted)
    \/ \E p \in RegistryPKs, action \in {CREATE, UPDATE, DELETE},
          permitted \in BOOLEAN : RegistryMutation(p, action, permitted)

SpecRegistry == InitRegistry /\ [][NextRegistry]_vars

\* A request of connection n whose action calls
\* observer.subscribe(..., request_id=request_id).
ObserverSubscribe(n, o, token, request_id) ==
    LET group_names == ObserverGroupNamesForConsumer(ClassObserver(o), token)
        c == BaseObserverSubscribe(ObserverConsumer(connections[n], ClassObserver(o)),
                                   group_names, request_id)
    IN /\ ~connections[n].raised
       /\ connections' =
              [connections EXCEPT ![n] = ConsumerAfter(@, ClassObserver(o), c)]
       /\ subscriptions' =
              IF request_id = None THEN subscriptions
              ELSE subscriptions \cup
                       {<<n, o, group_names[k], request_id>> :
                            k \in DOMAIN group_names}
       /\ invocations' = NoInvocations
       /\ UNCHANGED <<idle_vars, declaration_vars>>

\* A request of connection n whose action calls
\* observer.unsubscribe(..., request_id=request_id).
ObserverUnsubscribe(n, o, token, request_id) ==
    LET group_names == ObserverGroupNamesForConsumer(ClassObserver(o), token)
        c == BaseObserverUnsubscribe(ObserverConsumer(connections[n], ClassObserver(o)),
                                     group_names, request_id)
    IN /\ ~connections[n].raised
       /\ connections' =
              [connections EXCEPT ![n] = ConsumerAfter(@, ClassObserver(o), c)]
       /\ subscriptions' =
              {s \in subscriptions :
                  ~ /\ s[1] = n
                    /\ s[2] = o
                    /\ s[3] \in Range(group_names)
                    /\ request_id \in {None, s[4]}}
       /\ invocations' = NoInvocations
       /\ UNCHANGED <<idle_vars, declaration_vars>>

\* The connections the channel layer hands a message of group to.
Receivers(group) ==
    {n \in Connections : ~connections[n].raised /\ group \in connections[n].groups}

\* A committed change of an instance observed by o: its message is sent to the
\* group of the instance's token, and every connection in the group
\* dispatches it, by its type, to the handler the class declares under that
\* name, through BaseObserver.__call__.
ObservedChange(o, token) ==
    LET group_names == ObserverGroupNamesForSignal(ClassObserver(o), token)
        message == [type |-> ClassObserver(o).func, group |-> group_names[1],
                    action |-> UPDATE, body |-> token]
        handler == CHOOSE h \in ObserverIds :
                       ClassObserver(h).func = message.type
    IN /\ Receivers(message.group) # {}
       /\ connections' =
              [n \in Connections |->
                  IF n \in Receivers(message.group)
                  THEN ConsumerAfter(
                           connections[n], ClassObserver(handler),
                           ObserverCall(
                               ObserverConsumer(connections[n],
                                                ClassObserver(handler)),
                               message))
                  ELSE connections[n]]
       /\ invocations' =
              {[connection |-> n, observer |-> handler, group |-> message.group,
                subscribing_request_ids |->
                    Handled(ObserverConsumer(connections[n],
                                             ClassObserver(handler)),
                            message).subscribing_request_ids] :
               n \in Receivers(message.group)}
       /\ UNCHANGED subscriptions
       /\ UNCHANGED <<idle_vars, declaration_vars>>

\* One writer thread that saves and deletes inside nested atomic blocks.
NextSavepoints ==
    \/ \E i \in Instances, p \in PKs \cup {None}, f \in Fields : PostInit(i, p, f)
    \/ \E i \in Instances, f \in Fields : Save(i, f)
    \/ \E i \in Instances : Delete(i)
    \/ Begin
    \/ EnterSavepoint
    \/ ReleaseSavepoint
    \/ CommitOutermost
    \/ RollbackOutermost
    \/ RunCommitHook

SpecSavepoints == Init /\ [][NextSavepoints]_vars

\* One writer thread whose channel layer may fail a group_send of a commit;
\* the thread is followed up to the exception.
Running == flush = NoFlush

NextTransport ==
    \/ \E i \in Instances, p \in PKs \cup {None}, f \in Fields :
          Running /\ PostInit(i, p, f)
    \/ \E i \in Instances, f \in Fields : Running /\ Save(i, f)
    \/ \E i \in Instances : Running /\ Delete(i)
    \/ Running /\ Begin
    \/ Running /\ Commit
    \/ Running /\ Rollback
    \/ Running /\ RunCommitHook
    \/ \E k \in 1..Cardinality(Tokens) : Running /\ RunCommitHookRaises(k)

SpecTransport == Init /\ [][NextTransport]_vars

\* The declarations of two consumer classes, one subscription and the changes
\* observed after it; the model observer and the consumer stay idle.
InitObservers ==
    /\ groups_for_signal_set = TRUE
    /\ mixin = FALSE
    /\ NoSubscriptions
    /\ NoDeclarations
    /\ InitialConnections
    /\ savepoint_ids = 0
    /\ flush = NoFlush
    /\ NoExtensions
    /\ m2m_signal = NoSignal
    /\ instances = {}
    /\ pk = [i \in Instances |-> None]
    /\ fields = [i \in Instances |-> {}]
    /\ current_groups = [i \in Instances |-> {}]
    /\ pending_messages = [i \in Instances |-> <<>>]
    /\ in_atomic_block = FALSE
    /\ run_on_commit = <<>>
    /\ current_run_on_commit = <<>>
    /\ rows = {}
    /\ rows_at_begin = {}
    /\ channel = <<>>
    /\ event = [i \in Instances |-> NoEvent]
    /\ committed_groups = [i \in Instances |-> {}]
    /\ begin_groups = [i \in Instances |-> {}]
    /\ hooks_done = <<>>

NextObservers ==
    \/ \E o \in ObserverIds, func \in FuncNames, model_cls \in Models \cup {None} :
          ModelObserverDecorator(o, func, model_cls)
    \/ \E o \in ObserverIds, model_cls \in Models : MetaclassNew(o, model_cls)
    \/ \E o \in ObserverIds : DecorateGroupsForConsumer(o)
    \/ \E o \in ObserverIds : DecorateGroupsForSignal(o)
    \/ \E o \in ObserverIds : DecorateGroups(o)
    \/ \E o \in ObserverIds, value \in Models \cup {None} : AssignModelCls(o, value)
    \/ \E o \in ObserverIds, token \in GroupTokens : ConnectionSubscribe(o, token)
    \/ \E o \in ObserverIds, token \in GroupTokens : Signal(o, token)

SpecObservers == InitObservers /\ [][NextObservers]_vars

NextConnections ==
    \/ \E target \in Targets, request_id \in RequestIds \cup {None} :
          ObserverSubscribe(target[1], target[2], target[3], request_id)
    \/ \E target \in Targets, request_id \in RequestIds \cup {None} :
          ObserverUnsubscribe(target[1], target[2], target[3], request_id)
    \/ \E o \in ObserverIds, token \in GroupTokens : ObservedChange(o, token)

\* Two connections of a class with two observers, from the same idle state.
SpecConnections == InitObservers /\ [][NextConnections]_vars

\* ----------------------------------------------------------------- delivery
\* Connections of one consumer class whose handler "handler" observes a model:
\* they subscribe and unsubscribe, committed events are sent to the groups,
\* each connection takes the messages of its channel one at a time, and a
\* connection may disconnect at any point.

\* channel_layer.group_add(name, channel) for each of names.
GroupAdd(members, names, n) ==
    members \cup {<<name, n>> : name \in names}

\* Mutant: the discard empties the groups for every channel.
GroupDiscardEveryone(members, names, n) ==
    {member \in members : member[1] \notin names}

\* channel_layer.group_discard(name, channel) for each of names.
GroupDiscard(members, names, n) ==
    members \ {<<name, n>> : name \in names}

\* channel_layer.group_send(group, message): one copy for every channel that
\* is a member of the group now.
GroupSend(inboxes, members, message) ==
    [n \in Connections |->
        IF <<message.group, n>> \in members
        THEN Append(inboxes[n], message)
        ELSE inboxes[n]]

\* The connection is served: it has not disconnected and no exception has
\* ended its consumer.
Open(n) == n \notin closed /\ ~connections[n].raised

delivery_rest ==
    <<quiet_vars, declaration_vars, subscriptions, invocations, action_vars,
      writer_vars, late_vars>>

\* An action of connection n that calls handler.subscribe(...).
DeliverySubscribe(n, token, request_id) ==
    LET ob == ClassObserver(1)
        c == BaseObserverSubscribe(ObserverConsumer(connections[n], ob),
                                   ObserverGroupNamesForConsumer(ob, token),
                                   request_id)
    IN /\ Open(n)
       /\ connections' = [connections EXCEPT ![n] = ConsumerAfter(@, ob, c)]
       /\ layer_groups' = GroupAdd(layer_groups, Range(c.group_add), n)
       /\ UNCHANGED <<inbox, closed, sent_log, deliveries, delivery_rest>>

\* An action of connection n that calls handler.unsubscribe(...).
DeliveryUnsubscribe(n, token, request_id) ==
    LET ob == ClassObserver(1)
        c == BaseObserverUnsubscribe(ObserverConsumer(connections[n], ob),
                                     ObserverGroupNamesForConsumer(ob, token),
                                     request_id)
    IN /\ Open(n)
       /\ connections' = [connections EXCEPT ![n] = ConsumerAfter(@, ob, c)]
       /\ layer_groups' = GroupDiscard(layer_groups, Range(c.group_discard), n)
       /\ UNCHANGED <<inbox, closed, sent_log, deliveries, delivery_rest>>

\* send_prepared_messages for the committed change of an instance whose group
\* is that of token: the message goes to the channel layer, which copies it
\* to the members of the group.
CommittedEvent(token) ==
    LET ob == ClassObserver(1)
        group_names == ObserverGroupNamesForSignal(ob, token)
        message == [type |-> ob.func, group |-> group_names[1],
                    action |-> UPDATE, body |-> token,
                    id |-> Len(sent_log) + 1]
    IN /\ Len(sent_log) < MaxEvents
       /\ inbox' = GroupSend(inbox, layer_groups, message)
       /\ sent_log' =
              Append(sent_log,
                     [id |-> message.id, group |-> message.group,
                      subscribed |->
                          {n \in Connections :
                              Open(n) /\ message.group \in connections[n].groups}])
       /\ UNCHANGED <<connections, layer_groups, closed, deliveries,
                      delivery_rest>>

\* Connection n takes the next message of its channel and dispatches it, by
\* its type, to the handler, through BaseObserver.__call__.
Receive(n) ==
    /\ Open(n)
    /\ inbox[n] # <<>>
    /\ LET message == Head(inbox[n])
           ob == ClassObserver(CHOOSE h \in ObserverIds :
                                   ClassObserver(h).func = message.type)
       IN /\ connections' =
                 [connections EXCEPT ![n] =
                     ConsumerAfter(@, ob,
                                   ObserverCall(ObserverConsumer(@, ob), message))]
          /\ deliveries' = [deliveries EXCEPT ![n] = Append(@, message.id)]
    /\ inbox' = [inbox EXCEPT ![n] = Tail(@)]
    /\ UNCHANGED <<layer_groups, closed, sent_log, delivery_rest>>

\* The client of connection n disconnects: websocket_disconnect discards
\* every group of consumer.groups and the consumer stops.
Disconnect(n) ==
    /\ Open(n)
    /\ layer_groups' = GroupDiscard(layer_groups, connections[n].groups, n)
    /\ closed' = closed \cup {n}
    /\ UNCHANGED <<connections, inbox, sent_log, deliveries, delivery_rest>>

NextDelivery ==
    \/ \E target \in DeliveryTargets :
          DeliverySubscribe(target[1], target[2], target[3])
    \/ \E target \in DeliveryTargets :
          DeliveryUnsubscribe(target[1], target[2], target[3])
    \/ \E token \in GroupTokens : CommittedEvent(token)
    \/ \E n \in Connections : Receive(n)
    \/ \E n \in Connections : Disconnect(n)

\* Connections, the channel layer and committed events, from the idle state.
SpecDelivery == InitObservers /\ [][NextDelivery]_vars

\* ---------------------------------------------------------------- requests
\* The dispatch of the client's messages to the actions of the consumer.

\* Messages the client sends on the connection.
MaxMessages == 3

DetachedAction == "test_detached_async_action"
PlainAction == "test_async_action"

\* APIConsumerMetaclass: the methods marked by @action.
AvailableActions == {DetachedAction, PlainAction}

\* The json messages of the client: the two actions and an unknown one under
\* either request id, and a message that has a request_id but no action key.
ClientMessages ==
    [action : AvailableActions \cup {"unknown"}, request_id : RequestIds]
        \cup [request_id : RequestIds]

\* What the detached coroutine does once the event it waits for is set: it
\* returns a (data, status) tuple or raises an APIException (Throttled).
TaskOutcomes == {"returns", "raises"}

\* AsyncAPIConsumer.__init__: the attributes a consumer instance has.
ConsumerAttributes == {"groups", "_observer_group_to_request_id"}

\* dict.pop(key) without a default: KeyError when the key is absent.
PopRaises(content, key) == key \notin DOMAIN content

\* AsyncAPIConsumer.reply: the payload sent with send_json; cause is the
\* position of the message in received (history).
Reply(action, status, request_id, cause) ==
    [action |-> action, response_status |-> status, request_id |-> request_id,
     cause |-> cause]

\* The result of a call on the consumer: the replies it sent, the tasks it
\* created, and whether an exception left it.
CallResult(sent, created, raised) ==
    [sent |-> sent, created |-> created, raised |-> raised]

\* __detached_action.wrapped_detached_method: the task is created and given
\* its callback, then appended to self.detached_tasks; reading an attribute
\* the instance does not have raises AttributeError.
WrappedDetachedMethod(action, request_id, cause) ==
    CallResult(<<>>,
               <<[action |-> action, request_id |-> request_id,
                  cause |-> cause, state |-> "running"]>>,
               "detached_tasks" \notin ConsumerAttributes)

\* AsyncAPIConsumer.handle_exception for an exception that is no APIException
\* and no Http404: it is raised again.
HandleExceptionReraises(result) == [result EXCEPT !.raised = TRUE]

\* AsyncAPIConsumer.handle_action (check_permissions allows every action of
\* this consumer).
HandleAction(action, request_id, cause) ==
    IF action \notin AvailableActions
    THEN CallResult(<<Reply(action, 405, request_id, cause)>>, <<>>, FALSE)
    ELSE IF action = DetachedAction
    THEN LET result == WrappedDetachedMethod(action, request_id, cause)
         IN IF result.raised THEN HandleExceptionReraises(result) ELSE result
    ELSE CallResult(<<Reply(action, 200, request_id, cause)>>, <<>>, FALSE)

\* AsyncAPIConsumer.receive_json with get_action_name: both pops are outside
\* the try of handle_action.
ReceiveJsonResult(content, cause) ==
    IF PopRaises(content, "request_id") \/ PopRaises(content, "action")
    THEN CallResult(<<>>, <<>>, TRUE)
    ELSE HandleAction(content.action, content.request_id, cause)

action_rest ==
    <<quiet_vars, declaration_vars, connection_vars, delivery_vars, writer_vars,
      late_vars>>

\* The client sends a message.
ClientSend(content) ==
    /\ Len(mailbox) + Len(received) < MaxMessages
    /\ mailbox' = Append(mailbox, content)
    /\ UNCHANGED <<received, tasks, replies, serving, action_rest>>

\* The consumer takes the next message: receive_json.
ReceiveJson ==
    /\ serving
    /\ mailbox # <<>>
    /\ LET result == ReceiveJsonResult(Head(mailbox), Len(received) + 1)
       IN /\ replies' = replies \o result.sent
          /\ tasks' = tasks \o result.created
          /\ serving' = ~result.raised
    /\ received' = Append(received, Head(mailbox))
    /\ mailbox' = Tail(mailbox)
    /\ UNCHANGED action_rest

\* The coroutine of task k finishes: wrapped_action replies with the tuple it
\* returned, or hands the APIException to handle_exception, which replies
\* with its status code. The send reaches the client of a served connection;
\* once an exception has ended the consumer the server may have closed the
\* socket, and the reply is sent or lost.
TaskCompletes(k, outcome, delivered) ==
    /\ k \in DOMAIN tasks
    /\ tasks[k].state = "running"
    /\ serving => delivered
    /\ tasks' = [tasks EXCEPT ![k].state = outcome]
    /\ replies' =
           IF delivered
           THEN Append(replies,
                       Reply(tasks[k].action,
                             IF outcome = "returns" THEN 200 ELSE 429,
                             tasks[k].request_id, tasks[k].cause))
           ELSE replies
    /\ UNCHANGED <<mailbox, received, serving, action_rest>>

NextActions ==
    \/ \E content \in ClientMessages : ClientSend(content)
    \/ ReceiveJson
    \/ \E k \in 1..MaxMessages, outcome \in TaskOutcomes, delivered \in BOOLEAN :
          TaskCompletes(k, outcome, delivered)

\* One connection and the messages of its client, from the idle state.
SpecActions == InitObservers /\ [][NextActions]_vars

\* ------------------------------------------------------ concurrent writers
\* One row and two writers: each loads the row into an instance of its own,
\* changes the field its groups are computed from inside a transaction of its
\* own connection, and commits. The database runs the transactions at READ
\* COMMITTED: both commits succeed and the later one overwrites the row.

\* The values of the field the groups function reads.
WriterFields == {{"A"}, {"B"}, {"C"}, {"A", "B"}}

\* The instance the writer holds, for the operators of the observer.
WriterInstance == CHOOSE i \in Instances : TRUE

\* What the receivers and the callbacks of a writer read and write.
WriterWorld(writer) ==
    [current_groups |-> [i \in Instances |-> writers[writer].current_groups],
     pending_messages |-> [i \in Instances |-> writers[writer].pending_messages],
     channel |-> <<>>]

writer_rest ==
    <<quiet_vars, declaration_vars, connection_vars, delivery_vars, action_vars,
      late_vars>>

\* The row is inserted and committed before the writers start.
WriterCreateRow(f) ==
    /\ row_history = <<>>
    /\ row_history' = <<f>>
    /\ UNCHANGED <<writers, broadcast, writer_rest>>

\* Model.objects.get(pk=...): the instance is constructed from the committed
\* row and post_init_receiver sets its current_groups.
WriterLoad(writer) ==
    /\ row_history # <<>>
    /\ writers[writer].pc = "idle"
    /\ LET f == row_history[Len(row_history)]
           w == PostInitReceiver(WriterWorld(writer), WriterInstance, 1, f)
       IN writers' = [writers EXCEPT ![writer] =
              [@ EXCEPT !.pc = "loaded",
                        !.fields = f,
                        !.loaded = f,
                        !.current_groups = w.current_groups[WriterInstance],
                        !.pending_messages = w.pending_messages[WriterInstance]]]
    /\ UNCHANGED <<row_history, broadcast, writer_rest>>

\* with transaction.atomic(): instance.<field> = f; instance.save():
\* database_event(instance, UPDATE) queues the messages and registers the two
\* callbacks on the writer's connection.
WriterSave(writer, f) ==
    /\ writers[writer].pc = "loaded"
    /\ LET w == WriterWorld(writer)
           old_group_names == OldGroupNames(w, WriterInstance, UPDATE)
           new_group_names == NewGroupNames(f, UPDATE)
       IN \E messages \in GenerateMessages(WriterInstance, 1, old_group_names,
                                           new_group_names, 1) :
              writers' = [writers EXCEPT ![writer] =
                  [@ EXCEPT !.pc = "saved",
                            !.fields = f,
                            !.pending_messages = messages,
                            !.run_on_commit =
                                <<UpdateHook(WriterInstance, new_group_names),
                                  SendHook(WriterInstance)>>]]
    /\ UNCHANGED <<row_history, broadcast, writer_rest>>

RECURSIVE RunHooks(_, _)
\* run_and_clear_commit_hooks
RunHooks(w, hooks) ==
    IF hooks = <<>> THEN w ELSE RunHooks(RunHook(w, Head(hooks)), Tail(hooks))

\* The writer's atomic block is left: its transaction commits and the
\* callbacks registered on its connection run.
WriterCommit(writer) ==
    /\ writers[writer].pc = "saved"
    /\ row_history' = Append(row_history, writers[writer].fields)
    /\ LET w == RunHooks(WriterWorld(writer), writers[writer].run_on_commit)
       IN /\ writers' = [writers EXCEPT ![writer] =
                 [@ EXCEPT !.pc = "done",
                           !.current_groups = w.current_groups[WriterInstance],
                           !.pending_messages = w.pending_messages[WriterInstance],
                           !.run_on_commit = <<>>]]
          /\ broadcast' = broadcast \o w.channel
    /\ UNCHANGED writer_rest

NextWriters ==
    \/ \E f \in WriterFields : WriterCreateRow(f)
    \/ \E writer \in Writers : WriterLoad(writer)
    \/ \E writer \in Writers, f \in WriterFields : WriterSave(writer, f)
    \/ \E writer \in Writers : WriterCommit(writer)

\* Two writers of one row, from the idle state.
SpecWriters == InitObservers /\ [][NextWriters]_vars

\* ------------------------------------------------- many-to-many tracking
\* A consumer class with ObserverModelInstanceMixin over a model that has one
\* many-to-many field, and one writer thread that changes rows and links.

\* The senders a receiver can be connected to: the model, and the link table of
\* its many-to-many field (field.remote_field.through).
ModelSender == "model"
ThroughSender == "through"

\* ModelObserver._connect: post_init, post_save and post_delete of the model,
\* and m2m_changed of the link table of every many-to-many field of the model.
ConnectedSenders == {ModelSender, ThroughSender}

\* ModelObserver.__init__ as bind_to_model calls it: many_to_many arrives in
\* **kwargs, which __init__ reads only for kwargs["kwargs"]; the model_cls
\* setter then connects the receivers.
ModelObserverInitKwargs(many_to_many) == ConnectedSenders

\* _GenericModelObserver.bind_to_model
BindToModelKwargs(many_to_many) == ModelObserverInitKwargs(many_to_many)

\* ObserverAPIConsumerMetaclass.__new__ for a class body that sets
\* observer_many_to_many_relationships to many_to_many (False when left out).
RelationsMetaclassNew(many_to_many) ==
    /\ ~relations.declared
    /\ relations' = [declared |-> TRUE, many_to_many |-> many_to_many,
                     connected |-> BindToModelKwargs(many_to_many)]
    /\ UNCHANGED <<quiet_vars, declaration_vars, connection_vars, delivery_vars,
                   action_vars, writer_vars, state_vars, stream>>

\* Django sends a signal to the receivers connected to its sender.
Listening(sender) == relations.declared /\ sender \in relations.connected

NextRelations ==
    \/ \E many_to_many \in BOOLEAN : RelationsMetaclassNew(many_to_many)
    \/ \E i \in Instances, p \in PKs \cup {None}, f \in Fields :
          Listening(ModelSender) /\ PostInit(i, p, f)
    \/ \E i \in Instances, f \in Fields : Listening(ModelSender) /\ Save(i, f)
    \/ \E i \in Instances : Listening(ModelSender) /\ Delete(i)
    \/ \E i \in Instances, action \in M2mActions :
          Listening(ThroughSender) /\ M2mChanged(action, i)
    \/ relations.declared /\ Begin
    \/ relations.declared /\ Commit
    \/ relations.declared /\ RunCommitHook

SpecRelations == Init /\ [][NextRelations]_vars

\* ---------------------------------------------------------- instance state
\* Two observers of one model, two instances of it and the one thread that
\* constructs, saves and deletes them.

MaxStateEvents == 2

\* Mutant: the state is kept under one key for all observers of the model.
ObserverStateIdOfModel(o) == 1

\* ModelObserver.__init__: self.id = uuid4(), one value per observer.
ObserverStateId(o) == o

\* BaseObserver.group_names_for_signal of observer o: the tokens of its groups
\* function under its own stable observer id.
StateGroupNamesForSignal(o, f) ==
    {CleanGroupName(<<<<"*", "ModelObserver", FuncModule, o>>, token>>) :
         token \in f}

\* defaultdict(ModelObserverInstanceState)[key]: a missing key gets a new
\* state.
DefaultDictGet(dict, key) ==
    IF key \in DOMAIN dict THEN dict[key] ELSE ModelObserverInstanceState

\* dict[key] = value
DefaultDictSet(dict, key, value) ==
    [k \in DOMAIN dict \cup {key} |-> IF k = key THEN value ELSE dict[k]]

\* ModelObserver.get_observer_state: the state of the instance under the id of
\* the observer.
GetObserverState(inst, o) ==
    DefaultDictGet(inst.thread_local_observers, ObserverStateId(o))

\* get_observer_state(instance).<attribute> = value
SetObserverState(inst, o, state) ==
    [inst EXCEPT !.thread_local_observers =
        DefaultDictSet(@, ObserverStateId(o), state)]

\* ModelObserver.post_init_receiver of observer o.
StatePostInitReceiver(inst, o) ==
    LET groups ==
            IF inst.pk = None THEN {}
            ELSE StateGroupNamesForSignal(o, inst.fields)
    IN SetObserverState(inst, o,
           [GetObserverState(inst, o) EXCEPT !.current_groups = groups])

\* The two callbacks database_event registers for observer o and instance i.
StateHooks(o, i, new_group_names) ==
    <<[fn |-> "_update_current_groups", observer |-> o, instance |-> i,
       groups |-> new_group_names],
      [fn |-> "send_prepared_messages", observer |-> o, instance |-> i,
       groups |-> {}]>>

\* ModelObserver.database_event of observer o up to the registration of the
\* callbacks: the messages of prepare_messages replace pending_messages.
StateDatabaseEvent(inst, o, i, action) ==
    LET old_group_names ==
            IF action = CREATE THEN {}
            ELSE GetObserverState(inst, o).current_groups
        new_group_names ==
            IF action = DELETE THEN {}
            ELSE StateGroupNamesForSignal(o, inst.fields)
        \* one ordering: each groups function yields one group
        messages == CHOOSE ms \in GenerateMessages(i, inst.pk, old_group_names,
                                                  new_group_names, 1) : TRUE
    IN [inst |-> SetObserverState(inst, o,
                     [GetObserverState(inst, o) EXCEPT
                         !.pending_messages = messages]),
        hooks |-> StateHooks(o, i, new_group_names)]

\* One callback of the commit: _update_current_groups or
\* send_prepared_messages (which empties pending_messages).
StateRunHook(states, hook) ==
    LET inst == states[hook.instance]
        state == GetObserverState(inst, hook.observer)
    IN [states EXCEPT ![hook.instance] =
           SetObserverState(inst, hook.observer,
               IF hook.fn = "_update_current_groups"
               THEN [state EXCEPT !.current_groups = hook.groups]
               ELSE [state EXCEPT !.pending_messages = <<>>])]

RECURSIVE StateRunHooks(_, _)
StateRunHooks(states, hooks) ==
    IF hooks = <<>> THEN states
    ELSE StateRunHooks(StateRunHook(states, Head(hooks)), Tail(hooks))

\* One receiver of a signal of instance i; connection.on_commit runs a
\* callback at once when no atomic block is open.
StateDeliver(states, o, i, action) ==
    LET ev == StateDatabaseEvent(states[i], o, i, action)
        after == [states EXCEPT ![i] = ev.inst]
    IN IF state_tx.in_atomic_block
       THEN [states |-> after, hooks |-> ev.hooks]
       ELSE [states |-> StateRunHooks(after, ev.hooks), hooks |-> <<>>]

\* A signal of instance i reaches the receivers of both observers, in the order
\* they were connected.
StateSignal(states, i, action) ==
    LET first == StateDeliver(states, 1, i, action)
        second == StateDeliver(first.states, 2, i, action)
    IN [states |-> second.states, hooks |-> first.hooks \o second.hooks]

state_rest ==
    <<quiet_vars, declaration_vars, connection_vars, delivery_vars, action_vars,
      writer_vars, relations, stream>>

\* No callback of the open transaction holds the object the name i stands for.
Unreferenced(i) ==
    \A k \in DOMAIN state_tx.run_on_commit :
        state_tx.run_on_commit[k].instance # i

EventRoom == Len(state_tx.run_on_commit) < 4 * MaxStateEvents

\* i = Model(pk=p, field=f) or a load of the row p: Model.__init__ gives the
\* object a new _state and sends post_init to both observers.
StateConstruct(i, p, f) ==
    /\ Unreferenced(i)
    /\ LET inst == [constructed |-> TRUE, pk |-> p, fields |-> f,
                    thread_local_observers |-> <<>>]
       IN observer_states' =
              [observer_states EXCEPT ![i] =
                  StatePostInitReceiver(StatePostInitReceiver(inst, 1), 2)]
    /\ state_call' = [op |-> "init", instance |-> i, pk |-> p, fields |-> f]
    /\ UNCHANGED <<state_tx, state_rest>>

\* i.field = f; i.save(): created says whether the row is inserted.
StateSave(i, f, created) ==
    /\ observer_states[i].constructed
    /\ EventRoom
    /\ observer_states[i].pk = None => created
    /\ LET saved == [observer_states EXCEPT ![i].fields = f, ![i].pk = 1]
           result == StateSignal(saved, i, IF created THEN CREATE ELSE UPDATE)
       IN /\ observer_states' = result.states
          /\ state_tx' = [state_tx EXCEPT !.run_on_commit = @ \o result.hooks]
    /\ state_call' = [op |-> "save", instance |-> i, pk |-> 1, fields |-> f]
    /\ UNCHANGED state_rest

\* i.delete(): post_delete is sent, then the object loses its primary key.
StateDelete(i) ==
    /\ observer_states[i].constructed
    /\ observer_states[i].pk # None
    /\ EventRoom
    /\ LET result == StateSignal(observer_states, i, DELETE)
       IN /\ observer_states' = [result.states EXCEPT ![i].pk = None]
          /\ state_tx' = [state_tx EXCEPT !.run_on_commit = @ \o result.hooks]
    /\ state_call' = [op |-> "delete", instance |-> i, pk |-> None,
                      fields |-> observer_states[i].fields]
    /\ UNCHANGED state_rest

StateBegin ==
    /\ ~state_tx.in_atomic_block
    /\ state_tx' = [state_tx EXCEPT !.in_atomic_block = TRUE]
    /\ state_call' = [op |-> "begin", instance |-> "", pk |-> None, fields |-> {}]
    /\ UNCHANGED <<observer_states, state_rest>>

\* The atomic block is left: the callbacks run in the order of registration.
StateCommit ==
    /\ state_tx.in_atomic_block
    /\ observer_states' = StateRunHooks(observer_states, state_tx.run_on_commit)
    /\ state_tx' = [in_atomic_block |-> FALSE, run_on_commit |-> <<>>]
    /\ state_call' = [op |-> "commit", instance |-> "", pk |-> None, fields |-> {}]
    /\ UNCHANGED state_rest

\* The atomic block is left by an exception: the callbacks are dropped.
StateRollback ==
    /\ state_tx.in_atomic_block
    /\ state_tx' = [in_atomic_block |-> FALSE, run_on_commit |-> <<>>]
    /\ state_call' = [op |-> "rollback", instance |-> "", pk |-> None, fields |-> {}]
    /\ UNCHANGED <<observer_states, state_rest>>

NextStates ==
    \/ \E i \in StateInstances, p \in PKs \cup {None}, f \in StateFields :
          StateConstruct(i, p, f)
    \/ \E i \in StateInstances, f \in StateFields, created \in BOOLEAN :
          StateSave(i, f, created)
    \/ \E i \in StateInstances : StateDelete(i)
    \/ StateBegin
    \/ StateCommit
    \/ StateRollback

SpecStates == InitObservers /\ [][NextStates]_vars

\* ------------------------------------------------------- streamed lists
\* One consumer with StreamedPaginatedListMixin and
\* WebsocketLimitOffsetPagination serving list requests over a queryset that
\* stays as it is while a request is served.

MaxCount == 4
MaxLimit == 3

\* TempClass.default_limit of the test consumer; LimitOffsetPagination.max_limit
\* is None.
DefaultLimit == 1

\* The values a client sends for limit and offset: integers, also invalid ones.
LimitValues == -1..MaxLimit
OffsetValues == -1..(MaxCount + 1)

\* The keyword arguments of the list action a client sends: limit and offset
\* are optional.
ListKwargs ==
    [limit : LimitValues, offset : OffsetValues] \cup [limit : LimitValues]
        \cup [offset : OffsetValues] \cup {<<>>}

\* kwargs.get(key, default)
KwargsGet(kwargs, key, default) ==
    IF key \in DOMAIN kwargs THEN kwargs[key] ELSE default

\* _positive_int raises ValueError for a negative value, and for 0 when strict.
PositiveIntRaises(ret, strict) == ret < 0 \/ (ret = 0 /\ strict)

\* WebsocketLimitOffsetPagination.get_limit (max_limit None: no cutoff)
GetLimit(kwargs) ==
    LET limit_query_param == KwargsGet(kwargs, "limit", DefaultLimit)
    IN IF PositiveIntRaises(limit_query_param, TRUE) THEN DefaultLimit
       ELSE limit_query_param

\* WebsocketLimitOffsetPagination.get_offset
GetOffset(kwargs) ==
    LET offset_query_param == KwargsGet(kwargs, "offset", 0)
    IN IF PositiveIntRaises(offset_query_param, FALSE) THEN 0
       ELSE offset_query_param

\* queryset[start:stop] of a queryset of count rows, as the positions (from 0)
\* of the rows it holds.
Slice(count, start, stop) == {k \in 0..(count - 1) : start <= k /\ k < stop}

\* WebsocketLimitOffsetPagination.paginate_queryset and
\* get_paginated_response, as PaginatedModelListMixin.list calls them.
PaginatedList(count, kwargs) ==
    LET limit == GetLimit(kwargs)
        offset == GetOffset(kwargs)
    IN [count |-> count,
        results |-> IF count = 0 \/ offset > count THEN {}
                    ELSE Slice(count, offset, offset + limit),
        limit |-> limit,
        offset |-> offset]

\* Mutant: the next page is asked for while its offset does not exceed the end.
StreamContinuesToEnd(data) == data.offset <= data.count - data.limit

\* StreamedPaginatedListMixin.list: whether it calls itself for the next page.
StreamContinues(data) == data.offset < data.count - data.limit

\* kwargs["offset"] = value
KwargsSet(kwargs, key, value) ==
    [k \in DOMAIN kwargs \cup {key} |-> IF k = key THEN value ELSE kwargs[k]]

stream_rest ==
    <<quiet_vars, declaration_vars, connection_vars, delivery_vars, action_vars,
      writer_vars, relations, state_vars>>

\* The client sends {action: "list", request_id, **kwargs} while the table
\* holds count rows; the consumer is not serving a request.
StreamRequest(count, kwargs, request_id) ==
    /\ stream.pc # "listing"
    /\ stream' = [pc |-> "listing", count |-> count, request |-> kwargs,
                  kwargs |-> kwargs, request_id |-> request_id,
                  replies |-> <<>>]
    /\ UNCHANGED stream_rest

\* One call of StreamedPaginatedListMixin.list: the page is listed and sent,
\* and the call either calls list again with the next offset or returns.
StreamList ==
    /\ stream.pc = "listing"
    /\ LET data == PaginatedList(stream.count, stream.kwargs)
           reply == [action |-> "list", data |-> data, status |-> 200,
                     request_id |-> stream.request_id]
       IN stream' =
              IF StreamContinues(data)
              THEN [stream EXCEPT
                       !.replies = Append(@, reply),
                       !.kwargs = KwargsSet(@, "offset",
                                            data.limit + data.offset)]
              ELSE [stream EXCEPT !.replies = Append(@, reply),
                                  !.pc = "done"]
    /\ UNCHANGED stream_rest

NextStream ==
    \/ \E count \in 0..MaxCount, kwargs \in ListKwargs,
          request_id \in RequestIds : StreamRequest(count, kwargs, request_id)
    \/ StreamList

SpecStream == InitObservers /\ [][NextStream]_vars

\* The consumer awaits each call of list: a call that can run does run.
SpecStreamFair == SpecStream /\ WF_vars(StreamList)

\* ------------------------------------------------------------ properties

TypeOK ==
    /\ instances \subseteq Instances
    /\ in_atomic_block \in BOOLEAN
    /\ Len(run_on_commit) <= 2 * MaxTxEvents

IsPrefix(s, t) == Len(s) <= Len(t) /\ \A k \in DOMAIN s : s[k] = t[k]

Group(token) == CleanGroupName(<<StableObserverId, token>>)

\* The group_sends of instance i in the window.
Sent(i) == SelectSeq(channel, LAMBDA m : m.instance = i)

\* How many messages of ms go to group g with the given flavor.
Count(ms, g, flavor) ==
    Cardinality({k \in DOMAIN ms : ms[k].group = g /\ ms[k].action = flavor})

CountTo(ms, g) == Cardinality({k \in DOMAIN ms : ms[k].group = g})

\* The last event of instance i is committed and every callback of its
\* transaction has run: the window holds what that commit broadcast.
FlushDone(i) ==
    /\ ~in_atomic_block
    /\ NoHooksRunning
    /\ event[i].status = "committed"

\* ms is exactly one message of the given flavor for each group of groups.
OnePerGroup(ms, groups, flavor) ==
    /\ Len(ms) = Cardinality(groups)
    /\ \A g \in groups : Count(ms, g, flavor) = 1

\* A step that rolls back a transaction in which an instance was mutated.
RollbackStep ==
    \E i \in Instances : event[i].status = "open" /\ event'[i].status = "rolled_back"

C1_NoSendOfRolledBack ==
    \A k \in DOMAIN channel : channel[k].status # "rolled_back"

C1_RollbackKeepsCurrentGroups ==
    [][RollbackStep =>
           \A i \in instances : current_groups'[i] = begin_groups[i]]_vars

\* C1: no group_send is ever issued for a mutation made in a transaction that
\* is rolled back, and after the rollback current_groups of the instance is
\* what it was before the transaction began.
C1_RollbackProducesNoDelivery ==
    [](C1_NoSendOfRolledBack) /\ C1_RollbackKeepsCurrentGroups

\* A rolled back update that left the instance's groups: its messages are
\* still queued and current_groups is the set before the update.
C1_Witness ==
    \E i \in instances :
        /\ event[i].status = "rolled_back"
        /\ event[i].action = UPDATE
        /\ event[i].before # {}
        /\ event[i].new # event[i].before
        /\ pending_messages[i] # <<>>
        /\ current_groups[i] = event[i].before

\* C2: while the transaction of a mutation is open nothing has been broadcast
\* for it; every group_send is issued after the commit of the transaction of
\* the mutation that generated the message.
C2_NothingBroadcastBeforeCommit ==
    /\ in_atomic_block => channel = <<>>
    /\ \A k \in DOMAIN channel : channel[k].status = "committed"

\* An open transaction with two mutations of the instance and messages queued.
C2_Witness ==
    \E i \in instances :
        /\ in_atomic_block
        /\ event[i].status = "open"
        /\ event[i].seq = 2
        /\ pending_messages[i] # <<>>

\* A step in which current_groups of instance i changes.
ChangesCurrentGroups(i) == current_groups'[i] # current_groups[i]

C3_UnchangedWhileOpen ==
    [][\A i \in instances :
           /\ in_atomic_block => ~ChangesCurrentGroups(i)
           /\ ChangesCurrentGroups(i) =>
                  /\ ~in_atomic_block
                  /\ event'[i].status = "committed"
                  /\ \/ current_groups'[i] = event'[i].new
                     \/ /\ current_run_on_commit # <<>>
                        /\ Head(current_run_on_commit) =
                               UpdateHook(i, current_groups'[i])]_vars

C3_CommittedValue ==
    \A i \in instances :
        /\ in_atomic_block => current_groups[i] = begin_groups[i]
        /\ FlushDone(i) =>
               current_groups[i] =
                   IF event[i].action = DELETE THEN {}
                   ELSE GroupNamesForSignal(fields[i])
        /\ NoHooksRunning /\ pk[i] \in CommittedRows =>
               current_groups[i] = committed_groups[i]

EventQueued(i) == event[i].status \in {"open", "rolled_back"}
EventSentAtOnce(i) ==
    ~in_atomic_block /\ event[i].status = "committed" /\ hooks_done = <<>>
        /\ NoHooksRunning
EventMessages(i) == IF EventQueued(i) THEN pending_messages[i] ELSE Sent(i)

GroupsOf(ms, flavor) == {ms[k].group : k \in {j \in DOMAIN ms : ms[j].action = flavor}}

\* C4: the groups that get a delete-flavored (old - new), an update-flavored
\* (old \cap new) and a create-flavored (new - old) message from
\* generate_messages are pairwise disjoint, their union is old \cup new, every
\* group of the union gets exactly one message and no other group gets any.
C4_DeltaDisjointness ==
    \A i \in instances :
        EventQueued(i) \/ EventSentAtOnce(i) =>
            LET ms == EventMessages(i)
                old == event[i].old
                new == event[i].new
                to_delete == GroupsOf(ms, DELETE)
                to_update == GroupsOf(ms, UPDATE)
                to_create == GroupsOf(ms, CREATE)
            IN /\ to_delete = old \ new
               /\ to_update = old \cap new
               /\ to_create = new \ old
               /\ to_delete \cap to_update = {}
               /\ to_delete \cap to_create = {}
               /\ to_update \cap to_create = {}
               /\ to_delete \cup to_update \cup to_create = old \cup new
               /\ \A g \in old \cup new : CountTo(ms, g) = 1
               /\ \A k \in DOMAIN ms : ms[k].group \in old \cup new
               /\ \A k \in DOMAIN ms : ms[k].action \in {DELETE, UPDATE, CREATE}

\* An update whose diff has a group of each flavor, in the order delete,
\* update, create.
C4_Witness ==
    \E i \in instances :
        /\ EventQueued(i)
        /\ event[i].old \ event[i].new # {}
        /\ event[i].old \cap event[i].new # {}
        /\ event[i].new \ event[i].old # {}
        /\ Len(pending_messages[i]) = 3
        /\ pending_messages[i][1].action = DELETE
        /\ pending_messages[i][2].action = UPDATE
        /\ pending_messages[i][3].action = CREATE

\* C5: a committed CREATE event produces exactly one create-flavored message
\* for each group of groups_for_signal(instance), no delete- or update-flavored
\* message and no message to another group, whatever current_groups held
\* before: this is what the event queues and what its commit broadcasts.
C5_CreateSendsOnlyCreates ==
    \A i \in instances :
        event[i].action = CREATE =>
            /\ EventQueued(i) \/ EventSentAtOnce(i) =>
                   OnePerGroup(EventMessages(i), GroupNamesForSignal(fields[i]), CREATE)
            /\ FlushDone(i) =>
                   OnePerGroup(Sent(i), GroupNamesForSignal(fields[i]), CREATE)

\* A create of an instance that held current_groups has been committed by a
\* transaction and broadcast.
C5_Witness ==
    \E i \in instances :
        /\ FlushDone(i)
        /\ hooks_done # <<>>
        /\ event[i].action = CREATE
        /\ event[i].before # {}
        /\ Cardinality(GroupNamesForSignal(fields[i])) = 2
        /\ Len(Sent(i)) = 2

\* C6: a committed DELETE event produces only delete-flavored messages, exactly
\* one to each group of the instance's current_groups, never a create- or
\* update-flavored one, and after the commit current_groups is empty.
C6_DeleteSendsOnlyDeletes ==
    \A i \in instances :
        event[i].action = DELETE =>
            /\ EventQueued(i) \/ EventSentAtOnce(i) =>
                   OnePerGroup(EventMessages(i), event[i].before, DELETE)
            /\ FlushDone(i) =>
                   /\ OnePerGroup(Sent(i), event[i].before, DELETE)
                   /\ current_groups[i] = {}

\* A delete of an instance in two groups has been committed by a transaction
\* and broadcast.
C6_Witness ==
    \E i \in instances :
        /\ FlushDone(i)
        /\ hooks_done # <<>>
        /\ event[i].action = DELETE
        /\ Cardinality(event[i].before) = 2
        /\ Len(Sent(i)) = 2
        /\ current_groups[i] = {}

\* C7: a committed UPDATE that moves the instance out of groups and into
\* others sends one delete-flavored message to each group left and one
\* create-flavored message to each group entered, no update-flavored message
\* to either, and leaves no group of current_groups without a message.
C7_MoveSendsDeleteAndCreate ==
    \A i \in instances :
        FlushDone(i) /\ event[i].action = UPDATE =>
            LET ms == Sent(i)
                A == event[i].before
                B == GroupNamesForSignal(fields[i])
            IN /\ \A g \in A \ B :
                      Count(ms, g, DELETE) = 1 /\ CountTo(ms, g) = 1
               /\ \A g \in B \ A :
                      Count(ms, g, CREATE) = 1 /\ CountTo(ms, g) = 1
               /\ \A g \in A : CountTo(ms, g) = 1

\* An update committed by a transaction moved the instance from group A to
\* group B.
C7_Witness ==
    \E i \in instances :
        /\ FlushDone(i)
        /\ hooks_done # <<>>
        /\ event[i].action = UPDATE
        /\ event[i].before = {Group("A")}
        /\ GroupNamesForSignal(fields[i]) = {Group("B")}
        /\ Len(Sent(i)) = 2

C8_AtMostOnePerGroup ==
    \A i \in instances :
        /\ \A k \in DOMAIN channel : CountTo(Sent(i), channel[k].group) <= 1
        /\ SendHook(i) \in Range(hooks_done) => pending_messages[i] = <<>>

C8_LaterCallbacksSendNothing ==
    [][\A i \in instances :
           /\ current_run_on_commit # <<>>
           /\ Head(current_run_on_commit) = SendHook(i)
           /\ SendHook(i) \in Range(hooks_done)
           => channel' = channel]_vars

\* C8: a commit broadcasts at most one message per group for an instance
\* however many times the instance was saved in the transaction; the queue is
\* empty after the first send callback has run and the later ones send
\* nothing.
C8_OneBroadcastPerCommit ==
    [](C8_AtMostOnePerGroup) /\ C8_LaterCallbacksSendNothing

\* An instance was saved twice in a transaction; both send callbacks have run
\* and messages were broadcast.
C8_Witness ==
    \E i \in instances :
        /\ FlushDone(i)
        /\ Len(hooks_done) = 4
        /\ hooks_done[2] = SendHook(i)
        /\ hooks_done[4] = SendHook(i)
        /\ event[i].action = UPDATE
        /\ hooks_done[1].groups # {}
        /\ channel # <<>>

\* The (group, flavor) pairs that take subscribers from old to new.
Delta(old, new) ==
    {<<g, DELETE>> : g \in old \ new}
        \cup {<<g, UPDATE>> : g \in old \cap new}
        \cup {<<g, CREATE>> : g \in new \ old}

\* C9: when a transaction that mutated an instance (any sequence of create,
\* update, delete) has committed, the (group, flavor) messages it broadcast
\* are the delta between the group set of the committed row before the
\* transaction and the group set after the last mutation, one message each.
C9_FinalStateCorrect ==
    \A i \in instances :
        FlushDone(i) /\ hooks_done # <<>> =>
            LET ms == Sent(i)
                delta == Delta(event[i].base, event[i].new)
            IN /\ {<<ms[k].group, ms[k].action>> : k \in DOMAIN ms} = delta
               /\ Len(ms) = Cardinality(delta)

\* A later mutation of an instance in the transaction of an earlier one.
LaterMutation(i) ==
    /\ in_atomic_block
    /\ event[i].status = "open"
    /\ event'[i].status = "open"
    /\ event'[i].seq = event[i].seq + 1

\* C10 as claimed: the diff messages of every mutation of an instance in one
\* open transaction accumulate in the queue in mutation order; a later
\* mutation keeps the queued messages of an earlier one.
C10_Accumulate ==
    [][\A i \in instances :
           LaterMutation(i) =>
               IsPrefix(pending_messages[i], pending_messages'[i])]_vars

\* C10 amended: a later mutation of an instance in one open transaction
\* replaces the queued diff messages of an earlier one: the queue holds the
\* messages of the latest mutation only, and only those are broadcast at
\* commit.
C10_LatestMutationOnly ==
    \A i \in instances :
        /\ event[i].status = "open" =>
               \A k \in DOMAIN pending_messages[i] :
                   /\ pending_messages[i][k].seq = event[i].seq
                   /\ pending_messages[i][k].status = "open"
        /\ \A k \in DOMAIN Sent(i) : Sent(i)[k].seq = event[i].seq

\* Two mutations with non-empty diffs in one transaction: after the commit
\* only the messages of the second have been broadcast.
C10_Witness ==
    \E i \in instances :
        /\ FlushDone(i)
        /\ Len(hooks_done) = 4
        /\ hooks_done[1].groups # event[i].before
        /\ Sent(i) # <<>>
        /\ \A k \in DOMAIN Sent(i) : Sent(i)[k].seq = 2

\* The place of a flavor in the order of evaluation.
FlavorRank(flavor) ==
    IF flavor = DELETE THEN 1 ELSE IF flavor = UPDATE THEN 2 ELSE 3

\* In ms every delete-flavored message comes before every update-flavored one
\* and those before every create-flavored one.
InFlavorOrder(ms) ==
    \A k, l \in DOMAIN ms :
        k < l => FlavorRank(ms[k].action) <= FlavorRank(ms[l].action)

\* C11: in the batch broadcast for one mutation event all delete-flavored
\* group_sends are issued before all update-flavored ones, and those before all
\* create-flavored ones; the queue of the event has the same order.
C11_DeleteUpdateCreateOrder ==
    \A i \in instances :
        /\ InFlavorOrder(pending_messages[i])
        /\ InFlavorOrder(Sent(i))
        /\ \A k, l \in DOMAIN Sent(i) : Sent(i)[k].seq = Sent(i)[l].seq

\* A committed update whose batch had a message of each flavor has been
\* broadcast by the callbacks of its transaction.
C11_Witness ==
    \E i \in instances :
        /\ FlushDone(i)
        /\ hooks_done # <<>>
        /\ Len(Sent(i)) = 3
        /\ Sent(i)[1].action = DELETE
        /\ Sent(i)[2].action = UPDATE
        /\ Sent(i)[3].action = CREATE

\* The calls of the serializer that made the bodies of ms.
SerializerCalls(ms) == {<<ms[k].action, ms[k].serialize_call>> : k \in DOMAIN ms}

\* The flavors of the messages of ms.
Flavors(ms) == {ms[k].action : k \in DOMAIN ms}

\* C13: for one mutation event the serializer is called at most once for each
\* flavor: once for each flavor that has a group, so at most three times, and
\* once when only one flavor applies, however many groups get the message.
C13_SerializedOncePerFlavor ==
    \A i \in instances :
        EventQueued(i) \/ EventSentAtOnce(i) =>
            LET ms == EventMessages(i)
            IN /\ \A k \in DOMAIN ms : ms[k].serialize_call = 1
               /\ Cardinality(SerializerCalls(ms)) = Cardinality(Flavors(ms))
               /\ Cardinality(SerializerCalls(ms)) <= 3
               /\ Len(ms) > 0 /\ Cardinality(Flavors(ms)) = 1 =>
                      Cardinality(SerializerCalls(ms)) = 1

\* An update that stays in two groups and enters a third: three messages from
\* two calls of the serializer.
C13_Witness ==
    \E i \in instances :
        /\ EventQueued(i)
        /\ Cardinality(event[i].old \cap event[i].new) = 2
        /\ Cardinality(event[i].new \ event[i].old) = 1
        /\ Len(pending_messages[i]) = 3
        /\ Cardinality(SerializerCalls(pending_messages[i])) = 2

PostM2mActions == {"post_add", "post_remove", "post_clear"}

\* C14: a committed many-to-many post_add, post_remove or post_clear from
\* either side (reverse clear included) reaches the observer without error and
\* yields exactly one notification, update-flavored, for each group of each
\* instance whose links changed; pre_add, pre_remove and pre_clear yield none.
C14_M2mChangeYieldsUpdate ==
    /\ m2m_signal.action \in M2mActions \ PostM2mActions =>
           m2m_signal.targets = {} /\ ~m2m_signal.raised
    /\ m2m_signal.action \in PostM2mActions =>
           /\ ~m2m_signal.raised
           /\ m2m_signal.targets # {}
           /\ ~in_atomic_block =>
                  \A i \in m2m_signal.targets :
                      OnePerGroup(Sent(i), GroupNamesForSignal(fields[i]), UPDATE)

\* ---------------------------------------------- properties of the consumer

\* The request ids a consumer state holds for a group: in subscribed_requests
\* for the mixin, in _observer_group_to_request_id otherwise.
Requests(state, group) ==
    IF mixin
    THEN ItemsValue(state.subscribed, group)
    ELSE DictGet(state.registry, group)

\* The last call was a mutation of the row call.pk by another thread, whose
\* push the consumer's permissions allow.
MutationCall == call.op \in {CREATE, UPDATE, DELETE} /\ call.permitted

\* The group of the row the last call named.
CallGroup == GroupNamesForConsumer(call.pk)[1]

\* The last call subscribed call.request_id to call.group_names.
SubscribeCall ==
    /\ call.op \in {"subscribe", "subscribe_instance"}
    /\ call.request_id # None
    /\ call.group_names # <<>>

\* It found the request id subscribed to these groups already.
Resubscribe ==
    /\ SubscribeCall
    /\ \A group \in Range(call.group_names) :
           /\ group \in call.before.groups
           /\ call.request_id \in Requests(call.before, group)

\* How many times the last call's messages to the client name request_id.
DeliveredTimes(request_id) ==
    Cardinality({k \in DOMAIN call.sent :
                    \/ call.sent[k].request_id = request_id
                    \/ request_id \in call.sent[k].subscribing_request_ids})

\* C15: subscribing a request id to a group it is already subscribed to
\* changes neither the registry nor the transport membership and issues no
\* group_add (the first subscribe issued one and made one entry); an event in
\* the group is then delivered once for the request id.
C15_DoubleSubscribeIdempotent ==
    /\ SubscribeCall =>
           /\ ~call.raised
           /\ Len(call.group_add) <= Len(call.group_names)
           /\ \A group \in Range(call.group_names) :
                  /\ group \in consumer_groups
                  /\ call.request_id \in Requests(Before, group)
                  /\ group \notin call.before.groups =>
                         call.group_add = <<group>>
    /\ Resubscribe => Before = call.before /\ call.group_add = <<>>
    /\ MutationCall /\ CallGroup \in call.before.groups =>
           /\ Len(call.handled) = 1
           /\ \A request_id \in Requests(call.before, CallGroup) :
                  DeliveredTimes(request_id) = 1

\* The second subscribe of a request id to its group.
C15_Witness ==
    /\ Resubscribe
    /\ call.before.groups = Range(call.group_names)

\* The last call was observer.unsubscribe with a request id that the registry
\* entry of each resolved group held.
UnsubscribeCall ==
    /\ call.op = "unsubscribe"
    /\ call.permitted
    /\ call.request_id # None
    /\ \A group \in Range(call.group_names) :
           call.request_id \in DictGet(call.before.registry, group)

\* C17: BaseObserver.unsubscribe with a request id removes only that request
\* id from the registry entry of each resolved group, and discards a joined
\* group from the transport exactly when its entry has become empty: never
\* while another request id is left in it.
C17_DiscardIffEntryEmpty ==
    UnsubscribeCall =>
        /\ \A group \in Range(call.group_names) :
               /\ DictGet(observer_group_to_request_id, group) =
                      call.before.registry[group] \ {call.request_id}
               /\ group \in call.before.groups =>
                      (group \in Range(call.group_discard)
                           <=> DictGet(observer_group_to_request_id, group) = {})
        /\ \A group \in DOMAIN call.before.registry \ Range(call.group_names) :
               DictGet(observer_group_to_request_id, group) =
                   call.before.registry[group]
        /\ Range(call.group_discard) \subseteq Range(call.group_names)
        /\ consumer_groups = call.before.groups \ Range(call.group_discard)

\* The last call ran the unsubscribe of a request id: _unsubscribe(request_id)
\* in unsubscribe_instance, or observer.unsubscribe(request_id=...).
UnsubscribeRequestCall ==
    /\ call.op \in {"unsubscribe", "unsubscribe_instance"}
    /\ call.request_id # None
    /\ call.group_names # <<>>

\* C19: unsubscribing a request id removes it from the set of every group that
\* holds it, drops from subscribed_requests exactly the groups whose set became
\* empty and leaves everything else as it was; for a request id that some or
\* all groups do not hold (one never subscribed included) it raises no error.
C19_UnsubscribeAbsentIsNoOp ==
    UnsubscribeRequestCall =>
        /\ ~call.raised
        /\ mixin =>
               /\ ItemKeys(subscribed_requests) \subseteq
                      ItemKeys(call.before.subscribed)
               /\ \A group \in ItemKeys(call.before.subscribed) :
                      LET left == ItemsValue(call.before.subscribed, group)
                                      \ {call.request_id}
                      IN IF left = {}
                         THEN group \notin ItemKeys(subscribed_requests)
                         ELSE /\ group \in ItemKeys(subscribed_requests)
                              /\ ItemsValue(subscribed_requests, group) = left

\* The last call was unsubscribe_instance for a request id subscribed to the
\* instance while another request id was subscribed on the connection.
UnsubscribeOneOfTwo ==
    /\ call.op = "unsubscribe_instance"
    /\ call.request_id # None
    /\ call.group_names # <<>>
    /\ call.request_id \in ItemsValue(call.before.subscribed, CallGroup)
    /\ \E group \in ItemKeys(call.before.subscribed) :
           ItemsValue(call.before.subscribed, group) \ {call.request_id} # {}

\* C16: unsubscribe_instance with one of two subscribed request ids completes
\* without error and removes only that request's interest: the other request
\* id stays registered for each of its groups, on the same instance or on
\* another one, its groups stay joined, and it gets a push for each later
\* change.
C16_UnsubscribeLeavesOtherRequest ==
    /\ UnsubscribeOneOfTwo =>
           /\ ~call.raised
           /\ call.request_id \notin ItemsValue(subscribed_requests, CallGroup)
           /\ \A group \in ItemKeys(call.before.subscribed) :
                  \A request_id \in ItemsValue(call.before.subscribed, group)
                                        \ {call.request_id} :
                      /\ request_id \in ItemsValue(subscribed_requests, group)
                      /\ group \in consumer_groups
    /\ mixin /\ MutationCall =>
           \A request_id \in ItemsValue(call.before.subscribed, CallGroup) :
               /\ DeliveredTimes(request_id) = 1
               /\ \A k \in DOMAIN call.sent : call.sent[k].action = call.op

\* The last call was an unsubscribe that returned.
UnsubscribeReturned ==
    /\ call.op \in {"unsubscribe", "unsubscribe_instance"}
    /\ call.group_names # <<>>
    /\ ~call.raised

\* C20: on a connection that subscribes with request ids, every group the
\* connection has joined is a key of its subscription registry, and an
\* unsubscribe that removes the last request id of a group also discards the
\* group from the transport: no group stays joined with no interested request.
C20_JoinedGroupsHaveRequests ==
    /\ mixin /\ ~call.raised =>
           consumer_groups \subseteq ItemKeys(subscribed_requests)
    /\ UnsubscribeReturned =>
           \A group \in call.before.groups :
               /\ Requests(call.before, group) # {}
               /\ Requests(Before, group) = {}
               => group \notin consumer_groups

\* The last call was observer.unsubscribe(request_id=...) for the only request
\* id subscribed to the group of call.pk.
UnsubscribedOnlyRequest ==
    /\ call.op = "unsubscribe"
    /\ call.request_id # None
    /\ ~call.raised
    /\ call.group_names # <<>>
    /\ DictGet(call.before.registry, CallGroup) = {call.request_id}

\* C18: after the only request id of a group is unsubscribed with
\* observer.unsubscribe(request_id=...), an event in that group invokes no
\* handler and sends nothing on the connection; an event in a group that holds
\* a request id is handled once and tagged with the request ids of its group.
C18_NoDeliveryAfterUnsubscribe ==
    [][/\ UnsubscribedOnlyRequest
          /\ call'.op \in {CREATE, UPDATE, DELETE}
          /\ call'.pk = call.pk
          => call'.handled = <<>> /\ call'.sent = <<>>
       /\ ~mixin
          /\ call'.op \in {CREATE, UPDATE, DELETE}
          /\ call # call'
          /\ DictGet(observer_group_to_request_id,
                     GroupNamesForConsumer(call'.pk)[1]) # {}
          /\ GroupNamesForConsumer(call'.pk)[1] \in consumer_groups
          => /\ Len(call'.sent) = 1
             /\ call'.sent[1].subscribing_request_ids =
                    DictGet(observer_group_to_request_id,
                            GroupNamesForConsumer(call'.pk)[1])]_vars

\* The messages the last call sent to the client for request_id.
PushesFor(request_id) ==
    SelectSeq(call.sent, LAMBDA push : push.request_id = request_id)

\* C12: with ObserverModelInstanceMixin, each committed create, update and
\* delete of an instance yields, at its commit, exactly one push with the
\* matching action for each request subscribed to that instance's pk group;
\* a request gets no push for a change of another instance, so none after the
\* delete of its instance, whatever rows are created.
C12_OnePushPerChange ==
    mixin /\ MutationCall =>
        /\ \A request_id \in RequestIds :
               IF request_id \in ItemsValue(call.before.subscribed, CallGroup)
               THEN /\ Len(PushesFor(request_id)) = 1
                    /\ PushesFor(request_id)[1].action = call.op
                    /\ PushesFor(request_id)[1].body = call.pk
                    /\ PushesFor(request_id)[1].status =
                           IF call.op = DELETE THEN 204 ELSE 200
               ELSE PushesFor(request_id) = <<>>
        /\ \A k \in DOMAIN call.sent : call.sent[k].request_id \in RequestIds

\* The delete of a subscribed instance is pushed to its request, while another
\* request is subscribed to another instance.
C12_Witness ==
    /\ mixin
    /\ MutationCall
    /\ call.op = DELETE
    /\ Len(call.sent) = 1
    /\ call.sent[1].action = DELETE
    /\ \E group \in ItemKeys(subscribed_requests) \ {CallGroup} :
           ItemsValue(subscribed_requests, group) # {}

\* C21: when a message of group g reaches a consumer with
\* ObserverModelInstanceMixin, it sends exactly one reply for each request id
\* registered for g, tagged with that request id and the action of the
\* message, and no other reply: none for a request id of another group or for
\* one that was unsubscribed, and none at all when g has no request id left.
C21_OneReplyPerRegisteredRequest ==
    mixin /\ MutationCall =>
        /\ Len(call.handled) <= 1
        /\ call.handled = <<>> => call.sent = <<>>
        /\ \A h \in Range(call.handled) :
               /\ {call.sent[k].request_id : k \in DOMAIN call.sent} =
                      ItemsValue(call.before.subscribed, h.group)
               /\ Len(call.sent) =
                      Cardinality(ItemsValue(call.before.subscribed, h.group))
               /\ \A k \in DOMAIN call.sent : call.sent[k].action = h.action

\* A message for a group with two request ids: two replies.
C21_Witness ==
    /\ mixin
    /\ MutationCall
    /\ Len(call.handled) = 1
    /\ Len(call.sent) = 2

\* C23: for a delete-flavored message handle_observed_action replies to each
\* request id of the group with action delete, status 204 and the primary key
\* the message carries; it does not look the row up, so the missing row never
\* gives a 404 reply.
C23_DeleteRepliesWithoutRetrieve ==
    mixin /\ MutationCall /\ call.op = DELETE =>
        /\ call.pk \notin rows
        /\ \A h \in Range(call.handled) :
               /\ h.action = DELETE
               /\ Len(call.sent) =
                      Cardinality(ItemsValue(call.before.subscribed, h.group))
        /\ \A k \in DOMAIN call.sent :
               /\ call.sent[k].action = DELETE
               /\ call.sent[k].status = 204
               /\ call.sent[k].body = call.pk

\* The delete of a row a request is subscribed to.
C23_Witness ==
    /\ mixin
    /\ MutationCall
    /\ call.op = DELETE
    /\ call.pk \notin rows
    /\ Len(call.sent) >= 1
    /\ call.sent[1].status = 204

\* The last call was a permitted subscribe_instance (with a request id) or
\* unsubscribe_instance for a primary key that no row has.
LookupFailed ==
    /\ call.permitted
    /\ \/ call.op = "subscribe_instance" /\ call.request_id # None
       \/ call.op = "unsubscribe_instance"
    /\ call.pk \notin rows

\* C29: subscribe_instance or unsubscribe_instance for a lookup that matches no
\* instance replies with status 404 and the request's id, and leaves the
\* subscription registry and the transport group memberships as they were; a
\* lookup that matches never gives a 404.
C29_NotFoundChangesNothing ==
    /\ LookupFailed =>
           /\ call.status = 404
           /\ ~call.raised
           /\ Before = call.before
           /\ call.group_add = <<>>
           /\ call.group_discard = <<>>
    /\ (call.op \in {"subscribe_instance", "unsubscribe_instance"}
           /\ call.pk \in rows)
       => call.status # 404

\* A request subscribed to one instance asks for an instance that is missing.
C29_Witness ==
    /\ LookupFailed
    /\ call.request_id # None
    /\ subscribed_requests # <<>>
    /\ consumer_groups # {}

\* The last call was a request for an action of the consumer.
RequestCall ==
    call.op \in {"subscribe", "unsubscribe", "subscribe_instance",
                 "unsubscribe_instance"}

\* C30: when has_permission returns false for a requested action (subscribe
\* and unsubscribe actions included) the action method is not called: no group
\* is joined or left, the registry is unchanged, and the client gets exactly
\* one reply, an access-denied one with the request's id. A permitted request
\* gets no access-denied reply.
C30_DeniedActionChangesNothing ==
    /\ RequestCall /\ ~call.permitted =>
           /\ call.status = 403
           /\ ~call.raised
           /\ call.group_names = <<>>
           /\ call.group_add = <<>>
           /\ call.group_discard = <<>>
           /\ Before = call.before
    /\ RequestCall /\ call.permitted => call.status # 403

\* A denied request on a connection that holds a subscription.
C30_Witness ==
    /\ RequestCall
    /\ ~call.permitted
    /\ call.request_id # None
    /\ consumer_groups # {}
    /\ call.status = 403

\* ------------------------------------------- properties of the declarations

\* C24: with no groups_for_consumer function registered, the groups used on
\* subscribe and unsubscribe are those used when an event is signalled:
\* group_names_for_consumer and group_names_for_signal return the same group
\* names for the same arguments, also when only groups_for_signal is
\* overridden.
C24_ConsumerGroupsDefaultToSignalGroups ==
    \A o \in ObserverIds :
        Bound(observers[o]) /\ ~observers[o].group_names_for_consumer =>
            \A token \in GroupTokens :
                ObserverGroupNamesForConsumer(observers[o], token)
                    = ObserverGroupNamesForSignal(observers[o], token)

\* C25: two distinct observers never produce the same group name, whatever
\* their raw tokens, and an event of one observer is never delivered to a
\* connection that subscribed only through another observer.
C25_NoDeliveryAcrossObservers ==
    /\ \A a, b \in ObserverIds :
           a # b /\ Bound(observers[a]) /\ Bound(observers[b]) =>
               \A s, t \in GroupTokens :
                   Range(ObserverGroupNamesForConsumer(observers[a], s))
                       \cap Range(ObserverGroupNamesForSignal(observers[b], t))
                   = {}
    /\ probe.op = "signal" /\ probe.observer \notin connection.via =>
           ~probe.delivered

\* C26: binding a bound ModelObserver to a different model is rejected with an
\* error and leaves its model and its connected receivers as they were.
C26_RebindRejected ==
    (/\ probe.op = "model_cls"
     /\ probe.before.model_cls # None
     /\ probe.value # None
     /\ probe.value # probe.before.model_cls)
    => /\ probe.raised
       /\ observers[probe.observer].model_cls = probe.before.model_cls
       /\ observers[probe.observer].connected = probe.before.connected

\* ---------------------------------------------- properties of connections

\* The request ids connection n subscribed to group of observer o with
\* observer.subscribe(request_id=...) and has not unsubscribed.
Subscribed(n, o, group) ==
    {request_id \in RequestIds : <<n, o, group, request_id>> \in subscriptions}

\* C22: when an observer handler is invoked on a connection for a message of
\* group g, subscribing_request_ids is exactly the set of request ids this
\* connection passed to observer.subscribe for group g of this observer and
\* has not unsubscribed: no request id of another group, another observer or
\* another connection is in it.
C22_SubscribingRequestIdsExact ==
    \A invocation \in invocations :
        invocation.subscribing_request_ids
            = Subscribed(invocation.connection, invocation.observer,
                         invocation.group)

\* A handler is invoked with request id 4 alone, while 5 is subscribed to the
\* same group on the other connection and to other groups on this one.
C22_Witness ==
    \E invocation \in invocations :
        /\ invocation.subscribing_request_ids = {4}
        /\ \E s \in subscriptions :
               /\ s[1] # invocation.connection
               /\ s[2] = invocation.observer
               /\ s[3] = invocation.group
               /\ s[4] = 5
        /\ \E s \in subscriptions :
               /\ s[1] = invocation.connection
               /\ s[3] # invocation.group
               /\ s[4] = 5

\* ----------------------------------------------- properties of savepoints

\* The groups the messages queued in pending are addressed to.
PendingGroups(pending) == {pending[k].group : k \in DOMAIN pending}

\* The step is a database event of instance i inside a transaction.
EventInTransaction(i) == in_atomic_block /\ event'[i].seq # event[i].seq

C28_OtherSendsStillAttempted ==
    [][flush' # flush =>
          /\ flush'.attempted = flush'.batch
          /\ pending_messages'[flush'.instance] = <<>>
          /\ current_groups'[flush'.instance] = event'[flush'.instance].new
      ]_vars

\* ------------------------------------------------- properties of delivery

\* The copies of event id in a sequence of messages or of event ids.
Copies(ids, id) == Cardinality({k \in DOMAIN ids : ids[k] = id})

MessageIds(messages) == [k \in DOMAIN messages |-> messages[k].id]

\* C31: when several connections are subscribed to the same observer group,
\* one committed event is delivered exactly once to each of them: for every
\* connection subscribed when the event was sent there is exactly one copy,
\* either handled or still waiting in its channel, and none for a connection
\* that was not subscribed; another connection's disconnecting, before or
\* after it took its own copy, changes none of this. (A consumer that an
\* exception has ended is no longer a connection.)
C31_OneDeliveryPerConnection ==
    \A k \in DOMAIN sent_log, n \in Connections :
        \/ connections[n].raised
        \/ Copies(deliveries[n], sent_log[k].id)
               + Copies(MessageIds(inbox[n]), sent_log[k].id)
           = IF n \in sent_log[k].subscribed THEN 1 ELSE 0

\* Both connections were subscribed to the group of an event; connection 1
\* handled its copy and disconnected, connection 2 then handled its own.
C31_Witness ==
    /\ closed = {1}
    /\ Open(2)
    /\ \E k \in DOMAIN sent_log :
           /\ sent_log[k].subscribed = Connections
           /\ Copies(deliveries[1], sent_log[k].id) = 1
           /\ Copies(deliveries[2], sent_log[k].id) = 1
           /\ inbox[2] = <<>>

\* The transport groups the channel of connection n is a member of.
TransportGroups(n) == {member[1] : member \in {m \in layer_groups : m[2] = n}}

\* C35: at every point of a connection's life its groups set equals exactly
\* the transport groups the connection has joined and not discarded, and a
\* connection that has disconnected is in no transport group.
C35_GroupsMirrorTransport ==
    \A n \in Connections :
        /\ Open(n) => connections[n].groups = TransportGroups(n)
        /\ n \in closed => TransportGroups(n) = {}

\* Connection 2 disconnected while it was in a group, and connection 1 is in
\* one group and has left, through remove_group, another that still has a
\* subscribed request id.
C35_Witness ==
    /\ closed = {2}
    /\ connections[2].groups # {}
    /\ Open(1)
    /\ connections[1].groups # {}
    /\ \E id \in StableObserverIds :
           \E group \in DOMAIN connections[1].registry[id] :
               /\ connections[1].registry[id][group] = {5}
               /\ group \notin connections[1].groups

\* ------------------------------------------------- properties of requests

\* The action of the error reply to a message without an action: json null.
NullAction == "null"

\* The replies sent for the message at position cause of received.
RepliesTo(cause) == {j \in DOMAIN replies : replies[j].cause = cause}

\* C32: while a detached action is still running the connection keeps
\* dispatching the messages received later (no exception has ended its
\* consumer, so a later non-detached action is dispatched and replied to
\* before the detached one completes); when the detached action completes,
\* exactly one reply with its own action name and request_id is sent, with
\* the APIException's status if it raised one.
C32_DetachedActionRunsBeside ==
    \A k \in DOMAIN tasks :
        /\ serving
        /\ tasks[k].state # "running" =>
               \E j \in DOMAIN replies :
                   /\ RepliesTo(tasks[k].cause) = {j}
                   /\ replies[j].action = tasks[k].action
                   /\ replies[j].request_id = tasks[k].request_id
                   /\ replies[j].response_status
                          = IF tasks[k].state = "returns" THEN 200 ELSE 429

\* C38: a client message that has a request_id but no action key is answered
\* with one error reply (response_status 405, action null, the request's id
\* echoed), no handler is invoked, and the connection stays open and keeps
\* serving later messages.
C38_MissingActionAnswered ==
    \A k \in DOMAIN received :
        "action" \notin DOMAIN received[k] =>
            /\ serving
            /\ \A t \in DOMAIN tasks : tasks[t].cause # k
            /\ \E j \in DOMAIN replies :
                   /\ RepliesTo(k) = {j}
                   /\ replies[j] = Reply(NullAction, 405, received[k].request_id, k)

\* ------------------------------------------------- properties of rollback

\* The messages queued for instance i are those of a mutation whose
\* transaction was rolled back.
RolledBackQueued(i) ==
    /\ pending_messages[i] # <<>>
    /\ \A k \in DOMAIN pending_messages[i] :
           pending_messages[i][k].status = "rolled_back"

\* The groups the rolled back mutation of instance i computed its diff
\* against, and the groups it would have moved the instance to.
RolledBackFrom(i) == GroupsOf(pending_messages[i], DELETE) \cup GroupsOf(pending_messages[i], UPDATE)

RolledBackTo(i) == GroupsOf(pending_messages[i], UPDATE) \cup GroupsOf(pending_messages[i], CREATE)

\* The rolled back transaction changed the groups of the row of instance i.
RolledBackGroupChange(i) ==
    /\ i \in instances
    /\ RolledBackQueued(i)
    /\ pk[i] \in rows
    /\ RolledBackFrom(i) # {}
    /\ RolledBackFrom(i) # RolledBackTo(i)

\* The step is a database event of instance i.
NextMutation(i) ==
    /\ event'[i] # event[i]
    /\ event'[i].seq = IF in_atomic_block THEN Len(run_on_commit) \div 2 + 1 ELSE 1
    /\ pending_messages'[i] # pending_messages[i]

\* C33: after a transaction that changed an instance's groups from {A} to {B}
\* is rolled back, the next mutation of that same instance computes its diff
\* against {A}, and none of the messages queued by the rolled back mutation
\* is broadcast by that or any later commit.
C33_DiffAgainstGroupsBeforeRollback ==
    /\ [](\A k \in DOMAIN channel : channel[k].status # "rolled_back")
    /\ [][\A i \in Instances :
              (NextMutation(i) /\ RolledBackGroupChange(i))
                  => /\ current_groups[i] = RolledBackFrom(i)
                     /\ event'[i].old = RolledBackFrom(i)
                     /\ \A k \in DOMAIN pending_messages'[i] :
                            pending_messages'[i][k].status # "rolled_back"]_vars

\* A later transaction is open while the messages of the rolled back move
\* from one group to another are still queued for the instance.
C33_Witness ==
    \E i \in instances :
        /\ RolledBackGroupChange(i)
        /\ RolledBackFrom(i) \cap RolledBackTo(i) = {}
        /\ RolledBackTo(i) # {}
        /\ in_atomic_block
        /\ event[i] = NoEvent

\* -------------------------------------------------- properties of writers

\* How often the committed row left group g and how often it entered it.
Leaves(g) ==
    Cardinality({k \in 1..(Len(row_history) - 1) :
                    /\ g \in GroupNamesForSignal(row_history[k])
                    /\ g \notin GroupNamesForSignal(row_history[k + 1])})

Enters(g) ==
    Cardinality({k \in 1..(Len(row_history) - 1) :
                    /\ g \notin GroupNamesForSignal(row_history[k])
                    /\ g \in GroupNamesForSignal(row_history[k + 1])})

\* C34: with two concurrent writers that each loaded the same row into their
\* own in-memory instance and each commit a change of its groups, no
\* notification is lost or duplicated: every group the row leaves receives
\* exactly one delete-flavored message and every group it enters exactly one
\* create-flavored message, for every interleaving of the two
\* load/mutate/commit sequences.
C34_NoLostOrDuplicateNotification ==
    (\A writer \in Writers :
         /\ writers[writer].pc = "done"
         /\ writers[writer].loaded = row_history[1]
         /\ writers[writer].fields # writers[writer].loaded)
        => \A token \in Tokens :
               /\ Count(broadcast, Group(token), DELETE) = Leaves(Group(token))
               /\ Count(broadcast, Group(token), CREATE) = Enters(Group(token))

\* The last call was a mutation whose pushed action the consumer's permissions
\* deny.
DeniedPush == call.op \in {CREATE, UPDATE, DELETE} /\ ~call.permitted

\* C36: when the permissions deny the pushed action, the consumer with
\* ObserverModelInstanceMixin sends exactly one access-denied reply for the
\* message and no data reply to any request id of the group.
C36_DeniedPushSendsOnlyDenial ==
    mixin /\ DeniedPush /\ call.handled # <<>> =>
        /\ Len(call.sent) = 1
        /\ call.sent[1].status = 403
        /\ call.sent[1].request_id = None

\* -------------------------------- properties of many-to-many tracking

\* C37: link-table changes become update events only when the consumer class
\* enables many-to-many tracking; with observer_many_to_many_relationships
\* left at False a link change calls database_event for no instance, so it
\* produces no notification.
C37_LinkChangesOnlyWhenTracked ==
    relations.declared /\ ~relations.many_to_many => m2m_signal.targets = {}

\* ----------------------------------------- properties of instance state

\* The states of instance i that observer o reads.
StateOf(i, o) == GetObserverState(observer_states[i], o)

\* The groups observer o can name.
StateGroupsOf(o) == UNION {StateGroupNamesForSignal(o, f) : f \in StateFields}

\* C39: at construction an instance without a primary key gets
\* current_groups = {} and one with a primary key gets the groups of the
\* observer's groups function, for each observer; each observer reads only
\* what it wrote itself (its own groups, and after an autocommit save the
\* groups of the saved fields), and an operation on one instance leaves the
\* state of every other instance as it was.
C39_StatePerInstanceAndObserver ==
    /\ [](\A o \in StateObservers :
            /\ state_call.op = "init" =>
                   /\ StateOf(state_call.instance, o).current_groups =
                          IF state_call.pk = None THEN {}
                          ELSE StateGroupNamesForSignal(o, state_call.fields)
                   /\ StateOf(state_call.instance, o).pending_messages = <<>>
            /\ state_call.op = "save" /\ ~state_tx.in_atomic_block =>
                   StateOf(state_call.instance, o).current_groups =
                       StateGroupNamesForSignal(o, state_call.fields)
            /\ \A i \in StateInstances :
                   /\ StateOf(i, o).current_groups \subseteq StateGroupsOf(o)
                   /\ \A k \in DOMAIN StateOf(i, o).pending_messages :
                          StateOf(i, o).pending_messages[k].group
                              \in StateGroupsOf(o))
    /\ [][\A i \in StateInstances :
              state_call'.op \in {"init", "save", "delete"}
              /\ state_call'.instance # i
              => observer_states'[i] = observer_states[i]]_vars

\* Inside a transaction both observers hold their own groups and their own
\* queued messages for one instance, while the other instance was constructed
\* without a primary key.
C39_Witness ==
    /\ state_tx.in_atomic_block
    /\ state_call.op = "save"
    /\ \A o \in StateObservers :
           /\ StateOf("x", o).current_groups # {}
           /\ StateOf("x", o).pending_messages # <<>>
    /\ StateOf("x", 1).current_groups # StateOf("x", 2).current_groups
    /\ observer_states["y"].constructed
    /\ observer_states["y"].pk = None
    /\ StateOf("y", 1).current_groups = {}

\* ------------------------------------------- properties of streamed lists

\* The replies of the request that is being, or was, served.
Pages == stream.replies

\* In how many replies the row at position k appears.
Appearances(k) ==
    Cardinality({n \in DOMAIN Pages : k \in Pages[n].data.results})

====
